---- MODULE Spec2Model ----
(***************************************************************************)
(* Finance MCP server (src/server.py): the tool entry points, their        *)
(* validation, the per-symbol fetch loops and the metric arithmetic.       *)
(*                                                                         *)
(* Numbers.  A Python/numpy float is modelled exactly as NaN or as a       *)
(* signed surd  (n/d) * sqrt(m)  with m squarefree, which is closed under  *)
(* everything the handlers do with a standard deviation (sqrt of a         *)
(* rational variance, scaling, dividing a rational by it, comparing).      *)
(* round(x, 2) is computed on rationals; a surd is carried unrounded.      *)
(* Close prices are strictly positive, so no return is infinite.           *)
(*                                                                         *)
(* Strings.  A ticker is a sequence of one-character strings, so that      *)
(* upper(), strip() and isalnum() are computed, not assumed.               *)
(***************************************************************************)
EXTENDS Integers, Sequences, FiniteSets, TLC

\* Longest symbol list drawn with arbitrary contents.
MaxSymbols == 3

(***************************************************************************)
(* Exact arithmetic                                                        *)
(***************************************************************************)
Abs(x) == IF x < 0 THEN -x ELSE x

RECURSIVE GCD(_, _)
GCD(a, b) == IF b = 0 THEN Abs(a) ELSE GCD(b, a % b)

\* The largest r in lo..hi with r * r <= n, by bisection (lo * lo <= n).
RECURSIVE IsqrtIn(_, _, _)
IsqrtIn(n, lo, hi) ==
    IF lo = hi THEN lo
    ELSE IF ((lo + hi + 1) \div 2) * ((lo + hi + 1) \div 2) <= n
    THEN IsqrtIn(n, (lo + hi + 1) \div 2, hi)
    ELSE IsqrtIn(n, lo, (lo + hi + 1) \div 2 - 1)

\* The integer square root; 46340 is the largest root whose square is a 32-bit integer.
Isqrt(n) == IsqrtIn(n, 1, IF n < 46340 THEN n ELSE 46340)

\* The largest member of a finite non-empty set of integers.
MaxOf(S) == CHOOSE k \in S : \A j \in S : j <= k

\* The largest k with k * k dividing n (n >= 1), so that n \div (k * k) is squarefree.
SquarePart(n) == MaxOf({k \in 1..Isqrt(n) : n % (k * k) = 0})

NaN == [nan |-> TRUE, n |-> 0, d |-> 1, m |-> 1]

\* (n/d) * sqrt(m) in lowest terms, g being gcd(n, d).
Reduced(n, d, m, g) ==
    [nan |-> FALSE, n |-> (IF d < 0 THEN -n ELSE n) \div g, d |-> Abs(d) \div g, m |-> m]

\* (n/d) * sqrt(m) with the square k * k taken out of m.
Scaled(n, d, m, k) == Reduced(n * k, d, m \div (k * k), GCD(n * k, Abs(d)))

\* (n/d) * sqrt(m), normalised: d > 0, gcd(n, d) = 1, m squarefree, 0 = 0/1*sqrt(1).
Surd(n, d, m) ==
    IF n = 0 \/ m = 0 THEN [nan |-> FALSE, n |-> 0, d |-> 1, m |-> 1]
    ELSE Scaled(n, d, m, IF m = 1 THEN 1 ELSE SquarePart(m))

Rat(n, d) == Surd(n, d, 1)
Int2F(i) == Rat(i, 1)
Zero == [nan |-> FALSE, n |-> 0, d |-> 1, m |-> 1]
One == [nan |-> FALSE, n |-> 1, d |-> 1, m |-> 1]

IsNaN(x) == x.nan
Sign(x) == IF x.n > 0 THEN 1 ELSE IF x.n < 0 THEN -1 ELSE 0

\* x + y over the common denominator, g being gcd(x.d, y.d).
AddOver(x, y, g) ==
    Surd(x.n * (y.d \div g) + y.n * (x.d \div g), (x.d \div g) * y.d, x.m)

\* x + y; the handlers only ever add rationals (returns, prices, weights).
FAdd(x, y) ==
    IF x.nan \/ y.nan THEN NaN
    ELSE IF x.n = 0 THEN y
    ELSE IF y.n = 0 THEN x
    ELSE AddOver(x, y, GCD(x.d, y.d))

FNeg(x) == IF x.nan THEN NaN ELSE [x EXCEPT !.n = -x.n]
FSub(x, y) == FAdd(x, FNeg(y))

\* x * y, cancelling g = gcd(x.m, y.m), a = gcd(x.n, y.d), b = gcd(y.n, x.d) first.
MulOver(x, y, g, a, b) ==
    Surd((x.n \div a) * (y.n \div b) * g,
         (x.d \div b) * (y.d \div a),
         (x.m \div g) * (y.m \div g))

FMul(x, y) ==
    IF x.nan \/ y.nan THEN NaN
    ELSE IF x.n = 0 \/ y.n = 0 THEN Zero
    ELSE MulOver(x, y, GCD(x.m, y.m), GCD(x.n, y.d), GCD(y.n, x.d))

\* 1 / x for x # 0:  1 / ((n/d) sqrt m) = (d / (n m)) sqrt m.
FInv(x) == IF x.nan THEN NaN ELSE Surd(x.d, x.n * x.m, x.m)

\* x / y with y # 0 or NaN (every division in the handlers is guarded or
\* divides by a positive price).
FDiv(x, y) == IF x.nan \/ y.nan THEN NaN ELSE FMul(x, FInv(y))

\* sqrt(n/d) with the squares a * a and b * b taken out of n and d.
SqrtOver(x, a, b) ==
    Surd(a, b * (x.d \div (b * b)), (x.n \div (a * a)) * (x.d \div (b * b)))

\* sqrt of a rational x >= 0.
FSqrt(x) ==
    IF x.nan THEN NaN
    ELSE IF x.n = 0 THEN x
    ELSE SqrtOver(x, SquarePart(x.n), SquarePart(x.d))

\* x * x as a rational.
FSquare(x) == IF x.nan THEN NaN ELSE Rat(x.n * x.n * x.m, x.d * x.d)

\* x < y for x, y of the same sign, from their squares sx, sy.
SquareLt(sx, sy, positive) ==
    IF positive THEN sx.n * sy.d < sy.n * sx.d ELSE sy.n * sx.d < sx.n * sy.d

\* IEEE comparisons: every comparison with NaN is false.
FLt(x, y) ==
    IF x.nan \/ y.nan THEN FALSE
    ELSE IF Sign(x) # Sign(y) THEN Sign(x) < Sign(y)
    ELSE IF Sign(x) = 0 THEN FALSE
    ELSE IF x.m = y.m THEN x.n * y.d < y.n * x.d
    ELSE SquareLt(FSquare(x), FSquare(y), Sign(x) > 0)

FGt(x, y) == FLt(y, x)
FEq(x, y) == ~x.nan /\ ~y.nan /\ x = y
FNe(x, y) == ~FEq(x, y)
FAbs(x) == IF x.nan THEN NaN ELSE [x EXCEPT !.n = Abs(x.n)]

\* The integer nearest to the rational 100 * x, ties to even.
Hundredths(x) ==
    LET num == 100 * x.n
        fl  == num \div x.d
        rem == num - fl * x.d
    IN  IF 2 * rem < x.d THEN fl
        ELSE IF 2 * rem > x.d THEN fl + 1
        ELSE IF fl % 2 = 0 THEN fl ELSE fl + 1

\* round(x, 2): nearest multiple of 1/100, ties to even; a surd stays as it is.
Round2(x) == IF x.nan \/ x.m # 1 THEN x ELSE Rat(Hundredths(x), 100)

\* Python truth value of a float: 0.0 is false, everything else (NaN too) true.
Truthy(x) == x.nan \/ x.n # 0

(***************************************************************************)
(* Python values                                                           *)
(***************************************************************************)
\* Optional argument: None is <<>>, a given value v is <<v>>.
None == <<>>
Some(v) == <<v>>
IsNone(o) == o = <<>>
Get(o) == o[1]

\* What evaluating a piece of code ends in: a value, or an exception.
Ret(v) == [kind |-> "return", value |-> v]
Raise(exc, msg) == [kind |-> "raise", exc |-> exc, msg |-> msg]
Raised(o) == o.kind = "raise"

RECURSIVE Contains(_, _)
Contains(seq, x) ==
    IF seq = <<>> THEN FALSE ELSE Head(seq) = x \/ Contains(Tail(seq), x)

Range(seq) == {seq[i] : i \in 1..Len(seq)}

(***************************************************************************)
(* Strings                                                                 *)
(***************************************************************************)
UpperChars == {"A", "B", "C", "D", "E", "F", "G", "H", "L", "P", "S"}
LowerChars == {"a", "b"}
SpaceChars == {" "}

\* str.upper() on one character.
UpperChar(c) == IF c = "a" THEN "A" ELSE IF c = "b" THEN "B" ELSE c

\* The conversion that leaves the case as typed.
as_typed(s) == s

upper(s) == [i \in 1..Len(s) |-> UpperChar(s[i])]

RECURSIVE lstrip(_)
lstrip(s) ==
    IF s # <<>> /\ Head(s) \in SpaceChars THEN lstrip(Tail(s)) ELSE s

RECURSIVE rstrip(_)
rstrip(s) ==
    IF s # <<>> /\ s[Len(s)] \in SpaceChars THEN rstrip(SubSeq(s, 1, Len(s) - 1)) ELSE s

strip(s) == rstrip(lstrip(s))

\* s.replace(c, '')
remove(s, c) == SelectSeq(s, LAMBDA x : x # c)

\* str.isalnum(): non-empty and every character a letter or a digit.
isalnum(s) == s # <<>> /\ \A i \in 1..Len(s) : s[i] \in UpperChars \cup LowerChars

\* A Python string argument, or an argument that is no string (None, a number).
Str(chars) == [str |-> TRUE, chars |-> chars]
NotAStr == [str |-> FALSE, chars |-> <<>>]

GSPC == <<"^", "G", "S", "P", "C">>

(***************************************************************************)
(* Guardrails and validation                                               *)
(***************************************************************************)
VARIABLES ALLOWED_SYMBOLS, RATE_LIMIT

validate_symbol(symbol) ==
    IF ~symbol.str \/ symbol.chars = <<>>
    THEN Raise("ValueError", "Symbol must be a non-empty string")
    ELSE LET s == strip(upper(symbol.chars))
         IN  IF ~isalnum(remove(remove(s, "."), "-"))
             THEN Raise("ValueError", "Invalid symbol format")
             ELSE IF ALLOWED_SYMBOLS # {} /\ s \notin ALLOWED_SYMBOLS
             THEN Raise("ValueError", "Symbol not in allowed list")
             ELSE Ret(s)

valid_periods == <<"1d", "5d", "1mo", "3mo", "6mo", "1y", "2y", "5y", "10y", "ytd", "max">>

\* The validation that lets every period through.
any_period(period) == Ret(period)

validate_period(period) ==
    IF ~Contains(valid_periods, period)
    THEN Raise("ValueError", "Period must be one of the valid periods")
    ELSE Ret(period)

\* [validate_symbol(s) for s in symbols]: the first failure ends the comprehension.
RECURSIVE validate_symbols(_)
validate_symbols(symbols) ==
    IF symbols = <<>> THEN Ret(<<>>)
    ELSE LET h == validate_symbol(Head(symbols))
         IN  IF Raised(h) THEN h
             ELSE LET t == validate_symbols(Tail(symbols))
                  IN  IF Raised(t) THEN t ELSE Ret(<<h.value>> \o t.value)

(***************************************************************************)
(* Series arithmetic                                                       *)
(***************************************************************************)
\* A pandas Series: its values in date order, each with its date.
Point(date, v) == [date |-> date, v |-> v]

\* The sum of s[lo..hi], by halves.
RECURSIVE SumRange(_, _, _)
SumRange(s, lo, hi) ==
    IF lo > hi THEN Zero
    ELSE IF lo = hi THEN s[lo].v
    ELSE FAdd(SumRange(s, lo, (lo + hi) \div 2), SumRange(s, (lo + hi) \div 2 + 1, hi))

Sum(s) == SumRange(s, 1, Len(s))

\* Series.mean(): NaN for an empty series.
mean(s) == IF s = <<>> THEN NaN ELSE FDiv(Sum(s), Int2F(Len(s)))

\* The sum of the squared deviations from mu.
SumSqDev(s, mu) ==
    Sum([i \in 1..Len(s) |-> Point(s[i].date, FSquare(FSub(s[i].v, mu)))])

\* Series.var(): sample variance (ddof = 1), NaN with fewer than 2 values.
var(s) == IF Len(s) < 2 THEN NaN ELSE FDiv(SumSqDev(s, mean(s)), Int2F(Len(s) - 1))

\* Series.std()
std(s) == FSqrt(var(s))

\* Series.pct_change(): NaN first, then v[i] / v[i-1] - 1.
pct_change(s) ==
    [i \in 1..Len(s) |->
        Point(s[i].date, IF i = 1 THEN NaN ELSE FSub(FDiv(s[i].v, s[i - 1].v), One))]

\* dropna() left out: the undefined first point stays in the series.
keepna(s) == s

dropna(s) == SelectSeq(s, LAMBDA p : ~IsNaN(p.v))

safe_divide(a, b) == IF FNe(b, Zero) THEN FDiv(a, b) ELSE Zero

calculate_returns(prices) == dropna(pct_change(prices))

TradingDays == 252

calculate_volatility(returns, annualize) ==
    IF annualize THEN FMul(std(returns), FSqrt(Int2F(TradingDays))) ELSE std(returns)

\* The default of risk_free_rate: 0.02
RiskFreeRate == Rat(2, 100)

calculate_sharpe_ratio(returns, risk_free_rate) ==
    LET excess_returns == FSub(FMul(mean(returns), Int2F(TradingDays)), risk_free_rate)
        volatility == calculate_volatility(returns, TRUE)
    IN  safe_divide(excess_returns, volatility)

(***************************************************************************)
(* The data provider (yfinance): an external collaborator.  `market` is    *)
(* what it currently serves: per listed symbol the daily closes, oldest    *)
(* first, ending today; the symbols whose request fails; the symbols whose *)
(* .info request fails.  An unlisted symbol yields an empty frame.         *)
(***************************************************************************)
VARIABLES market

\* DataFrame of `closes`, indexed by date (0 is today, -1 the day before, ...).
Frame(closes) == [i \in 1..Len(closes) |-> Point(i - Len(closes), Int2F(closes[i]))]

\* yf.Ticker(symbol).history(period=period)
history(symbol) ==
    IF symbol \in market.down THEN Raise("Exception", "provider request failed")
    ELSE IF symbol \in DOMAIN market.closes THEN Ret(Frame(market.closes[symbol]))
    ELSE Ret(<<>>)

\* yf.Ticker(symbol).info
ticker_info(symbol) ==
    IF symbol \in market.down \cup market.noinfo
    THEN Raise("Exception", "provider request failed")
    ELSE Ret([currency |-> "USD"])

\* A message is its literal text followed by the values formatted into it.
Text(text) == <<text>>

\* f"text{symbol}"
FStr(text, symbol) == <<text, symbol>>

\* except Exception left out: the outcome of the body is the outcome of the call.
no_except(outcome) == outcome

\* except Exception as e: return {"error": str(e)}
try_except(outcome) ==
    IF Raised(outcome) THEN Ret([error |-> Text(outcome.msg)]) ELSE outcome

\* A step of a handler that neither returned nor raised: execution goes on.
Cont(v) == [kind |-> "continue", value |-> v]

\* What a handler did: how it ended, which symbols it asked the provider for, and
\* (get_portfolio_analysis) the local `weights` it ran with, None if it ended
\* before weights was settled.
Ended(outcome, fetched, weights) ==
    [out |-> outcome, fetched |-> fetched, weights |-> weights]

Done(outcome, fetched) == Ended(outcome, fetched, None)

\* The handler's try ... except around its body.
Handled(b) == [b EXCEPT !.out = try_except(b.out)]

last(s) == s[Len(s)].v

(***************************************************************************)
(* get_stock_price (Volume, High and Low columns are not modelled)         *)
(***************************************************************************)
stock_price_report(symbol, period, hist, info) ==
    LET current_price == last(hist)
        prev == IF Len(hist) > 1 THEN hist[Len(hist) - 1].v ELSE current_price
    IN  [symbol |-> symbol,
         current_price |-> Round2(current_price),
         currency |-> info.currency,
         previous_close |-> Round2(prev),
         change |-> Round2(IF Len(hist) > 1 THEN FSub(current_price, prev) ELSE Zero),
         change_percent |->
             Round2(IF Len(hist) > 1
                    THEN FMul(FSub(FDiv(current_price, prev), One), Int2F(100))
                    ELSE Zero),
         period |-> period,
         data_points |-> Len(hist)]

get_stock_price_body(symbol, period) ==
    LET vs == validate_symbol(symbol) IN
    IF Raised(vs) THEN Done(vs, <<>>) ELSE
    LET vp == validate_period(period) IN
    IF Raised(vp) THEN Done(vp, <<>>) ELSE
    LET hist == history(vs.value)
        fetched == <<vs.value>>
    IN
    IF Raised(hist) THEN Done(hist, fetched) ELSE
    IF hist.value = <<>>
    THEN Done(Ret([error |-> FStr("No data found for symbol ", vs.value)]), fetched) ELSE
    LET info == ticker_info(vs.value) IN
    IF Raised(info) THEN Done(info, fetched) ELSE
    Done(Ret(stock_price_report(vs.value, vp.value, hist.value, info.value)), fetched)

get_stock_price(symbol, period) == Handled(get_stock_price_body(symbol, period))

(***************************************************************************)
(* get_volatility_analysis                                                 *)
(***************************************************************************)
\* returns.rolling(w).std().iloc[-1] * sqrt(252): NaN with fewer than w values.
RollingVolLast(returns, w) ==
    IF Len(returns) < w THEN NaN
    ELSE FMul(std(SubSeq(returns, Len(returns) - w + 1, Len(returns))),
              FSqrt(Int2F(TradingDays)))

\* The values of s that are numbers.
Numbers(s) == {s[i].v : i \in {j \in 1..Len(s) : ~IsNaN(s[j].v)}}

\* Series.max(): NaN values are skipped; NaN when nothing is left.
SeriesMax(s) ==
    IF Numbers(s) = {} THEN NaN
    ELSE CHOOSE x \in Numbers(s) : \A y \in Numbers(s) : ~FLt(x, y)

\* Series.min()
SeriesMin(s) ==
    IF Numbers(s) = {} THEN NaN
    ELSE CHOOSE x \in Numbers(s) : \A y \in Numbers(s) : ~FLt(y, x)

Pct(x) == Round2(FMul(x, Int2F(100)))

volatility_report(symbol, period, returns) ==
    LET rolling_30 == RollingVolLast(returns, 30)
        rolling_60 == RollingVolLast(returns, 60)
    IN  [symbol |-> symbol,
         period |-> period,
         daily_volatility |-> Pct(calculate_volatility(returns, FALSE)),
         annual_volatility |-> Pct(calculate_volatility(returns, TRUE)),
         current_30d_volatility |-> IF IsNaN(rolling_30) THEN None ELSE Some(Pct(rolling_30)),
         current_60d_volatility |-> IF IsNaN(rolling_60) THEN None ELSE Some(Pct(rolling_60)),
         volatility_trend |-> IF FGt(rolling_30, rolling_60) THEN "increasing" ELSE "decreasing",
         max_daily_return |-> Pct(SeriesMax(returns)),
         min_daily_return |-> Pct(SeriesMin(returns))]

get_volatility_analysis_body(symbol, period) ==
    LET vs == validate_symbol(symbol) IN
    IF Raised(vs) THEN Done(vs, <<>>) ELSE
    LET vp == validate_period(period) IN
    IF Raised(vp) THEN Done(vp, <<>>) ELSE
    LET hist == history(vs.value)
        fetched == <<vs.value>>
    IN
    IF Raised(hist) THEN Done(hist, fetched) ELSE
    IF hist.value = <<>> \/ Len(hist.value) < 2
    THEN Done(Ret([error |-> FStr("Insufficient data for volatility analysis of ", vs.value)]),
              fetched)
    ELSE Done(Ret(volatility_report(vs.value, vp.value, calculate_returns(hist.value))),
              fetched)

get_volatility_analysis(symbol, period) ==
    Handled(get_volatility_analysis_body(symbol, period))

(***************************************************************************)
(* get_trend_analysis                                                      *)
(***************************************************************************)
\* The mean of the whole series, whatever the window.
ExpandingMeanLast(s, w) == mean(s)

\* close_prices.rolling(w).mean().iloc[-1], for a series of at least w bars.
RollingMeanLast(s, w) == mean(SubSeq(s, Len(s) - w + 1, Len(s)))

\* (current_price / close_prices.iloc[-(k + 1)] - 1) * 100 if len > k else None
momentum(close_prices, k) ==
    IF Len(close_prices) > k
    THEN Some(FMul(FSub(FDiv(last(close_prices),
                             close_prices[Len(close_prices) - k].v), One), Int2F(100)))
    ELSE None

\* round(m, 2) if m else None
RoundIfTruthy(m) == IF ~IsNone(m) /\ Truthy(Get(m)) THEN Some(Round2(Get(m))) ELSE None

\* The vote counting every classification that is not "bearish".
CountNotBearish(trends) == Cardinality({i \in 1..Len(trends) : trends[i] # "bearish"})

\* [short_trend, medium_trend, long_trend].count("bullish")
CountBullish(trends) == Cardinality({i \in 1..Len(trends) : trends[i] = "bullish"})

trend_report(symbol, period, close_prices) ==
    LET ma_20 == RollingMeanLast(close_prices, 20)
        ma_50 == RollingMeanLast(close_prices, 50)
        ma_200 == IF Len(close_prices) >= 200
                  THEN Some(RollingMeanLast(close_prices, 200)) ELSE None
        current_price == last(close_prices)
        short_trend == IF FGt(current_price, ma_20) THEN "bullish" ELSE "bearish"
        medium_trend == IF FGt(current_price, ma_50) THEN "bullish" ELSE "bearish"
        long_trend == IF ~IsNone(ma_200) /\ FGt(current_price, Get(ma_200))
                      THEN "bullish" ELSE "neutral"
        golden_cross == IF ~IsNone(ma_200) THEN Some(FGt(ma_50, Get(ma_200))) ELSE None
    IN  [symbol |-> symbol,
         period |-> period,
         current_price |-> Round2(current_price),
         ma_20 |-> Round2(ma_20),
         ma_50 |-> Round2(ma_50),
         ma_200 |-> IF ~IsNone(ma_200) THEN Some(Round2(Get(ma_200))) ELSE None,
         short_term_trend |-> short_trend,
         medium_term_trend |-> medium_trend,
         long_term_trend |-> long_trend,
         golden_cross |-> golden_cross,
         momentum_10d |-> RoundIfTruthy(momentum(close_prices, 10)),
         momentum_30d |-> RoundIfTruthy(momentum(close_prices, 30)),
         overall_trend |->
             IF CountBullish(<<short_trend, medium_trend, long_trend>>) >= 2
             THEN "bullish" ELSE "bearish"]

MinTrendBars == 50

get_trend_analysis_body(symbol, period) ==
    LET vs == validate_symbol(symbol) IN
    IF Raised(vs) THEN Done(vs, <<>>) ELSE
    LET vp == validate_period(period) IN
    IF Raised(vp) THEN Done(vp, <<>>) ELSE
    LET hist == history(vs.value)
        fetched == <<vs.value>>
    IN
    IF Raised(hist) THEN Done(hist, fetched) ELSE
    IF hist.value = <<>> \/ Len(hist.value) < MinTrendBars
    THEN Done(Ret([error |-> FStr("Insufficient data for trend analysis of ", vs.value)]),
              fetched)
    ELSE Done(Ret(trend_report(vs.value, vp.value, hist.value)), fetched)

get_trend_analysis(symbol, period) == Handled(get_trend_analysis_body(symbol, period))

(***************************************************************************)
(* get_risk_analysis                                                       *)
(***************************************************************************)
Dates(s) == {s[i].date : i \in 1..Len(s)}

\* pd.concat([a, b], axis=1, join='inner').dropna(): the rows of a whose date is
\* in b too, each with both values.
ValueAt(s, date) == (CHOOSE i \in 1..Len(s) : s[i].date = date)

\* The join that keeps every row of a, a value missing in b taken from a.
left_join(a, b) ==
    [i \in 1..Len(a) |->
        [date |-> a[i].date, stock |-> a[i].v,
         benchmark |-> IF a[i].date \in Dates(b) THEN b[ValueAt(b, a[i].date)].v
                       ELSE a[i].v]]

inner_join(a, b) ==
    LET keep == SelectSeq(a, LAMBDA p : p.date \in Dates(b))
    IN  [i \in 1..Len(keep) |->
            [date |-> keep[i].date, stock |-> keep[i].v,
             benchmark |-> b[ValueAt(b, keep[i].date)].v]]

Column(rows, name) == [i \in 1..Len(rows) |-> Point(rows[i].date, rows[i][name])]

\* The sum of the products of the deviations of x from mx and of y from my.
SumProdDev(x, y, mx, my) ==
    Sum([i \in 1..Len(x) |-> Point(x[i].date, FMul(FSub(x[i].v, mx), FSub(y[i].v, my)))])

\* np.cov(x, y)[0][1]: sample covariance (ddof = 1).
cov(x, y) ==
    IF Len(x) < 2 THEN NaN
    ELSE FDiv(SumProdDev(x, y, mean(x), mean(y)), Int2F(Len(x) - 1))

\* np.var(x): population variance (ddof = 0).
np_var(x) == IF x = <<>> THEN NaN ELSE FDiv(SumSqDev(x, mean(x)), Int2F(Len(x)))

\* The values of s in ascending order: the k-th is the value with fewer than k
\* values below it and at least k values not above it.
Sorted(s) ==
    LET below == [i \in 1..Len(s) |-> Cardinality({j \in 1..Len(s) : FLt(s[j].v, s[i].v)})]
        upto  == [i \in 1..Len(s) |-> Cardinality({j \in 1..Len(s) : ~FLt(s[i].v, s[j].v)})]
    IN  [k \in 1..Len(s) |->
            s[CHOOSE i \in 1..Len(s) : below[i] < k /\ k <= upto[i]].v]

\* np.percentile(s, q): linear interpolation between the two nearest ranks.
percentile(s, q) ==
    LET a    == Sorted(s)
        pos  == q * (Len(s) - 1)
        lo   == pos \div 100
        frac == Rat(pos - 100 * lo, 100)
    IN  IF lo + 1 >= Len(s) THEN a[lo + 1]
        ELSE FAdd(a[lo + 1], FMul(frac, FSub(a[lo + 2], a[lo + 1])))

\* (1 + s).cumprod()
RECURSIVE ProdRange(_, _, _)
ProdRange(s, lo, hi) ==
    IF lo > hi THEN One
    ELSE IF lo = hi THEN FAdd(One, s[lo].v)
    ELSE FMul(ProdRange(s, lo, (lo + hi) \div 2), ProdRange(s, (lo + hi) \div 2 + 1, hi))

cumprod1(s) == [i \in 1..Len(s) |-> Point(s[i].date, ProdRange(s, 1, i))]

\* s.expanding().max()
expanding_max(s) == [i \in 1..Len(s) |-> Point(s[i].date, SeriesMax(SubSeq(s, 1, i)))]

\* The drawdown measured from the first cumulative return instead of from the
\* running peak.
drawdown_from_start(stock_aligned) ==
    LET cumulative_returns == cumprod1(stock_aligned)
        drawdown == [i \in 1..Len(cumulative_returns) |->
                        Point(cumulative_returns[i].date,
                              FDiv(FSub(cumulative_returns[i].v, cumulative_returns[1].v),
                                   cumulative_returns[1].v))]
    IN  FMul(SeriesMin(drawdown), Int2F(100))

risk_max_drawdown(stock_aligned) ==
    LET cumulative_returns == cumprod1(stock_aligned)
        peak == expanding_max(cumulative_returns)
        drawdown == [i \in 1..Len(peak) |->
                        Point(peak[i].date,
                              FDiv(FSub(cumulative_returns[i].v, peak[i].v), peak[i].v))]
    IN  FMul(SeriesMin(drawdown), Int2F(100))

\* The rating with both thresholds counted into the lower class.
risk_rating_inclusive(volatility) ==
    IF FLt(volatility, Rat(15, 100)) \/ FEq(volatility, Rat(15, 100)) THEN "Low"
    ELSE IF FLt(volatility, Rat(25, 100)) \/ FEq(volatility, Rat(25, 100)) THEN "Medium"
    ELSE "High"

\* "Low" if volatility < 0.15 else "Medium" if volatility < 0.25 else "High"
risk_rating(volatility) ==
    IF FLt(volatility, Rat(15, 100)) THEN "Low"
    ELSE IF FLt(volatility, Rat(25, 100)) THEN "Medium" ELSE "High"

MinOverlap == 30

risk_report(symbol, period, benchmark, stock_aligned, bench_aligned) ==
    LET volatility == calculate_volatility(stock_aligned, TRUE)
        sharpe_ratio == calculate_sharpe_ratio(stock_aligned, RiskFreeRate)
        covariance == cov(stock_aligned, bench_aligned)
        benchmark_variance == np_var(bench_aligned)
        beta == safe_divide(covariance, benchmark_variance)
        downside_returns == SelectSeq(stock_aligned, LAMBDA p : FLt(p.v, Zero))
        downside_deviation ==
            IF Len(downside_returns) > 0
            THEN FMul(std(downside_returns), FSqrt(Int2F(TradingDays))) ELSE Zero
    IN  [symbol |-> symbol,
         period |-> period,
         benchmark |-> benchmark,
         volatility_annual |-> Pct(volatility),
         sharpe_ratio |-> Round2(sharpe_ratio),
         beta |-> Round2(beta),
         var_5_percent |-> Pct(percentile(stock_aligned, 5)),
         var_1_percent |-> Pct(percentile(stock_aligned, 1)),
         max_drawdown |-> Round2(risk_max_drawdown(stock_aligned)),
         downside_deviation |-> Pct(downside_deviation),
         risk_rating |-> risk_rating(volatility)]

get_risk_analysis_body(symbol, period, benchmark) ==
    LET vs == validate_symbol(symbol) IN
    IF Raised(vs) THEN Done(vs, <<>>) ELSE
    LET vb == validate_symbol(benchmark) IN
    IF Raised(vb) THEN Done(vb, <<>>) ELSE
    LET vp == validate_period(period) IN
    IF Raised(vp) THEN Done(vp, <<>>) ELSE
    LET stock_hist == history(vs.value) IN
    IF Raised(stock_hist) THEN Done(stock_hist, <<vs.value>>) ELSE
    LET bench_hist == history(vb.value)
        fetched == <<vs.value, vb.value>>
    IN
    IF Raised(bench_hist) THEN Done(bench_hist, fetched) ELSE
    IF stock_hist.value = <<>> \/ bench_hist.value = <<>>
    THEN Done(Ret([error |-> Text("Insufficient data for risk analysis")]), fetched) ELSE
    LET aligned_data == inner_join(calculate_returns(stock_hist.value),
                                   calculate_returns(bench_hist.value))
    IN  IF Len(aligned_data) < MinOverlap
        THEN Done(Ret([error |-> Text("Insufficient overlapping data for analysis")]), fetched)
        ELSE Done(Ret(risk_report(vs.value, vp.value, vb.value,
                                  Column(aligned_data, "stock"),
                                  Column(aligned_data, "benchmark"))), fetched)

get_risk_analysis(symbol, period, benchmark) ==
    Handled(get_risk_analysis_body(symbol, period, benchmark))

(***************************************************************************)
(* Python dict: insertion-ordered keys; assigning an existing key keeps    *)
(* its place.                                                              *)
(***************************************************************************)
EmptyDict == [keys |-> <<>>, val |-> [k \in {} |-> 0]]

DictSet(dict, k, v) ==
    [keys |-> IF k \in Range(dict.keys) THEN dict.keys ELSE Append(dict.keys, k),
     val  |-> (k :> v) @@ dict.val]

(***************************************************************************)
(* compare_stocks                                                          *)
(***************************************************************************)
MinCompare == 2
MaxCompare == 10
MinBetaOverlap == 30

default_metrics == <<"returns", "volatility", "sharpe">>

compare_beta(returns, bench_returns) ==
    LET aligned_data == inner_join(returns, bench_returns)
    IN  IF Len(aligned_data) > MinBetaOverlap
        THEN LET covariance == cov(Column(aligned_data, "stock"),
                                   Column(aligned_data, "benchmark"))
                 benchmark_var == np_var(Column(aligned_data, "benchmark"))
             IN  "beta" :> Round2(safe_divide(covariance, benchmark_var))
        ELSE [k \in {} |-> 0]

metrics_data(hist, metrics, bench_returns) ==
    LET returns == calculate_returns(hist)
    IN  [current_price |-> Round2(last(hist)),
         total_return |-> Pct(FSub(FDiv(last(hist), hist[1].v), One)),
         data_points |-> Len(hist)]
        @@ (IF Contains(metrics, "returns")
            THEN "annual_return" :> Pct(FMul(mean(returns), Int2F(TradingDays)))
            ELSE [k \in {} |-> 0])
        @@ (IF Contains(metrics, "volatility")
            THEN "volatility" :> Pct(calculate_volatility(returns, TRUE))
            ELSE [k \in {} |-> 0])
        @@ (IF Contains(metrics, "sharpe")
            THEN "sharpe_ratio" :> Round2(calculate_sharpe_ratio(returns, RiskFreeRate))
            ELSE [k \in {} |-> 0])
        @@ (IF Contains(metrics, "beta") /\ ~IsNone(bench_returns)
            THEN compare_beta(returns, Get(bench_returns))
            ELSE [k \in {} |-> 0])

\* The per-symbol try of compare_stocks, were the entry of a symbol without data
\* to report its data points next to the error.
compare_entry_partial(symbol, metrics, bench_returns) ==
    IF Raised(history(symbol)) THEN [error |-> Text(history(symbol).msg)]
    ELSE IF history(symbol).value = <<>>
    THEN [error |-> Text("No data available"), data_points |-> 0]
    ELSE metrics_data(history(symbol).value, metrics, bench_returns)

\* The body of the per-symbol try, and its except clause.
compare_entry(symbol, metrics, bench_returns) ==
    LET hist == history(symbol)
    IN  IF Raised(hist) THEN [error |-> Text(hist.msg)]
        ELSE IF hist.value = <<>> THEN [error |-> Text("No data available")]
        ELSE metrics_data(hist.value, metrics, bench_returns)

\* The loop that keeps an entry only for the symbols that gave metrics.
RECURSIVE compare_successes(_, _, _, _)
compare_successes(symbols, metrics, bench_returns, comparison_data) ==
    IF symbols = <<>> THEN comparison_data
    ELSE LET entry == compare_entry(Head(symbols), metrics, bench_returns)
         IN  compare_successes(Tail(symbols), metrics, bench_returns,
                               IF "error" \in DOMAIN entry THEN comparison_data
                               ELSE DictSet(comparison_data, Head(symbols), entry))

RECURSIVE compare_loop(_, _, _, _)
compare_loop(symbols, metrics, bench_returns, comparison_data) ==
    IF symbols = <<>> THEN comparison_data
    ELSE compare_loop(Tail(symbols), metrics, bench_returns,
                      DictSet(comparison_data, Head(symbols),
                              compare_entry(Head(symbols), metrics, bench_returns)))

\* [v[metric] for v in comparison_data.values() if metric in v]
metric_values(comparison_data, metric) ==
    LET has == SelectSeq(comparison_data.keys,
                         LAMBDA k : metric \in DOMAIN comparison_data.val[k])
    IN  [i \in 1..Len(has) |-> comparison_data.val[has[i]][metric]]

\* max(values, default=None): a later item replaces the best only if it is greater.
RECURSIVE py_max_from(_, _)
py_max_from(values, best) ==
    IF values = <<>> THEN best
    ELSE py_max_from(Tail(values), IF FGt(Head(values), best) THEN Head(values) ELSE best)

py_max(values) ==
    IF values = <<>> THEN None ELSE Some(py_max_from(Tail(values), Head(values)))

\* min(values, default=None)
RECURSIVE py_min_from(_, _)
py_min_from(values, best) ==
    IF values = <<>> THEN best
    ELSE py_min_from(Tail(values), IF FLt(Head(values), best) THEN Head(values) ELSE best)

py_min(values) ==
    IF values = <<>> THEN None ELSE Some(py_min_from(Tail(values), Head(values)))

\* `if best`: None and 0.0 are false.
best_is_truthy(best) == ~IsNone(best) /\ Truthy(Get(best))

\* [k for k, v in comparison_data.items() if v.get(metric) == best][0] if best else None
ranking(comparison_data, metric, best) ==
    IF best_is_truthy(best)
    THEN LET hits == SelectSeq(comparison_data.keys,
                         LAMBDA k : /\ metric \in DOMAIN comparison_data.val[k]
                                    /\ FEq(comparison_data.val[k][metric], Get(best)))
         IN  IF hits = <<>> THEN Raise("IndexError", "list index out of range")
             ELSE Ret(Some(hits[1]))
    ELSE Ret(None)

compare_report(comparison_data, period, symbols) ==
    LET best_return == py_max(metric_values(comparison_data, "total_return"))
        best_sharpe == py_max(metric_values(comparison_data, "sharpe_ratio"))
        lowest_vol  == py_min(metric_values(comparison_data, "volatility"))
        r == ranking(comparison_data, "total_return", best_return)
        s == ranking(comparison_data, "sharpe_ratio", best_sharpe)
        v == ranking(comparison_data, "volatility", lowest_vol)
    IN  IF Raised(r) THEN r ELSE IF Raised(s) THEN s ELSE IF Raised(v) THEN v
        ELSE Ret([comparison |-> comparison_data,
                  period |-> period,
                  symbols_analyzed |-> Len(symbols),
                  best_return_symbol |-> r.value,
                  best_sharpe_symbol |-> s.value,
                  lowest_volatility_symbol |-> v.value])

\* The benchmark frame was fetched: run the per-symbol loop and rank.
compare_fetched(symbols, period, metrics, benchmark) ==
    IF Raised(benchmark) THEN Done(benchmark, <<GSPC>>)
    ELSE Done(compare_report(
                  compare_loop(symbols, metrics,
                               IF benchmark.value # <<>>
                               THEN Some(calculate_returns(benchmark.value)) ELSE None,
                               EmptyDict),
                  period, symbols),
              <<GSPC>> \o symbols)

\* The symbols were validated as vs and the period as vp.
compare_validated(vs, vp, metrics) ==
    IF Raised(vs) THEN Done(vs, <<>>)
    ELSE IF Raised(vp) THEN Done(vp, <<>>)
    ELSE compare_fetched(vs.value, vp.value,
                         IF IsNone(metrics) THEN default_metrics ELSE Get(metrics),
                         history(GSPC))

\* The body without its two checks of the number of symbols.
compare_any_number(symbols, period, metrics) ==
    compare_validated(validate_symbols(symbols), validate_period(period), metrics)

compare_stocks_body(symbols, period, metrics) ==
    IF symbols = <<>> \/ Len(symbols) < MinCompare
    THEN Done(Ret([error |-> Text("At least 2 symbols required for comparison")]), <<>>)
    ELSE IF Len(symbols) > MaxCompare
    THEN Done(Ret([error |-> Text("Maximum 10 symbols allowed for comparison")]), <<>>)
    ELSE compare_validated(validate_symbols(symbols), validate_period(period), metrics)

compare_stocks(symbols, period, metrics) ==
    Handled(compare_stocks_body(symbols, period, metrics))

(***************************************************************************)
(* get_portfolio_analysis                                                  *)
(***************************************************************************)
MaxPortfolio == 20

\* sum(weights)
RECURSIVE py_sum(_)
py_sum(xs) == IF xs = <<>> THEN Zero ELSE FAdd(py_sum(SubSeq(xs, 1, Len(xs) - 1)), xs[Len(xs)])

WeightTolerance == Rat(1, 100)

\* [1.0] * len(symbols): the division by the number of symbols left out.
unit_weights(symbols) == [i \in 1..Len(symbols) |-> One]

\* [1.0 / len(symbols)] * len(symbols)
equal_weights(symbols) == [i \in 1..Len(symbols) |-> FDiv(One, Int2F(Len(symbols)))]

\* The weights the analysis runs with, or the early return of the weights check.
portfolio_weights(symbols, weights) ==
    IF ~IsNone(weights) /\ Get(weights) # <<>>
    THEN IF Len(Get(weights)) # Len(symbols)
         THEN Ret([error |-> Text("Number of weights must match number of symbols")])
         ELSE IF FGt(FAbs(FSub(py_sum(Get(weights)), One)), WeightTolerance)
         THEN Ret([error |-> Text("Weights must sum to 1.0")])
         ELSE Cont(Get(weights))
    ELSE Cont(equal_weights(symbols))

\* The fetch loop: the first symbol with no data ends the whole call.
RECURSIVE portfolio_fetch(_, _, _)
portfolio_fetch(symbols, returns_data, fetched) ==
    IF symbols = <<>> THEN Done(Cont(returns_data), fetched)
    ELSE LET symbol == Head(symbols)
             hist == history(symbol)
         IN  IF Raised(hist) THEN Done(hist, Append(fetched, symbol))
             ELSE IF hist.value = <<>>
             THEN Done(Ret([error |-> FStr("No data available for ", symbol)]),
                       Append(fetched, symbol))
             ELSE portfolio_fetch(Tail(symbols),
                                  DictSet(returns_data, symbol, calculate_returns(hist.value)),
                                  Append(fetched, symbol))

\* pd.DataFrame(returns_data).dropna(): one column per key, the dates every column has.
CommonDates(returns_data) ==
    {dt \in UNION {Dates(returns_data.val[k]) : k \in Range(returns_data.keys)} :
        \A k \in Range(returns_data.keys) : dt \in Dates(returns_data.val[k])}

aligned_frame(returns_data) ==
    [columns |-> returns_data.keys,
     col |-> [k \in Range(returns_data.keys) |->
                SelectSeq(returns_data.val[k], LAMBDA p : p.date \in CommonDates(returns_data))]]

Rows(returns_df) == Len(returns_df.col[returns_df.columns[1]])

\* (returns_df * weights).sum(axis=1)
RECURSIVE weighted_row(_, _, _, _)
weighted_row(returns_df, weights, i, c) ==
    IF c > Len(returns_df.columns) THEN Zero
    ELSE FAdd(FMul(returns_df.col[returns_df.columns[c]][i].v, weights[c]),
              weighted_row(returns_df, weights, i, c + 1))

weighted_returns(returns_df, weights) ==
    [i \in 1..Rows(returns_df) |->
        Point(returns_df.col[returns_df.columns[1]][i].date,
              weighted_row(returns_df, weights, i, 1))]

\* s.cumsum()
cumsum(s) == [i \in 1..Len(s) |-> Point(s[i].date, SumRange(s, 1, i))]

\* (r.cumsum().expanding().max() - r.cumsum()).max() * 100
portfolio_max_drawdown(portfolio_returns) ==
    LET cs == cumsum(portfolio_returns)
        peak == expanding_max(cs)
        gap == [i \in 1..Len(cs) |-> Point(cs[i].date, FSub(peak[i].v, cs[i].v))]
    IN  FMul(SeriesMax(gap), Int2F(100))

\* np.dot(a, b) of two vectors given as functions on 1..n
RECURSIVE dot(_, _, _)
dot(a, b, n) == IF n = 0 THEN Zero ELSE FAdd(dot(a, b, n - 1), FMul(a[n], b[n]))

\* returns_df.cov().values
cov_matrix(returns_df) ==
    [i \in 1..Len(returns_df.columns) |->
        [j \in 1..Len(returns_df.columns) |->
            cov(returns_df.col[returns_df.columns[i]], returns_df.col[returns_df.columns[j]])]]

\* weights ** 2 with weights a Python list: lists have no power operator.
pow_list(weights) ==
    Raise("TypeError", "unsupported operand type(s) for ** or pow(): 'list' and 'int'")

\* 1 / sqrt(dot(w, dot(C, w))) * sqrt(dot(w ** 2, diag(C))); the left factor is
\* evaluated first and cannot raise, then w ** 2.
diversification_ratio(returns_df, weights) ==
    LET n  == Len(returns_df.columns)
        C  == cov_matrix(returns_df)
        Cw == [i \in 1..n |-> dot(C[i], weights, n)]
        w2 == pow_list(weights)
    IN  IF Raised(w2) THEN w2
        ELSE Ret(Round2(FMul(FInv(FSqrt(dot(weights, Cw, n))),
                             FSqrt(dot(w2.value, [i \in 1..n |-> C[i][i]], n)))))

\* The returned dict; correlation_matrix is not modelled.
portfolio_report(symbols, weights, period, returns_df) ==
    LET portfolio_returns == weighted_returns(returns_df, weights)
        portfolio_vol == calculate_volatility(portfolio_returns, TRUE)
        portfolio_sharpe == calculate_sharpe_ratio(portfolio_returns, RiskFreeRate)
        individual_metrics ==
            [k \in Range(symbols) |->
                LET i == CHOOSE j \in 1..Len(symbols) :
                             symbols[j] = k /\ \A h \in (j + 1)..Len(symbols) : symbols[h] # k
                    stock_returns == returns_df.col[k]
                IN  [weight |-> Pct(weights[i]),
                     volatility |-> Pct(calculate_volatility(stock_returns, TRUE)),
                     sharpe_ratio |-> Round2(calculate_sharpe_ratio(stock_returns, RiskFreeRate)),
                     contribution_to_return |->
                         Pct(FMul(FMul(mean(stock_returns), weights[i]), Int2F(TradingDays)))]]
        ratio == diversification_ratio(returns_df, weights)
    IN  IF Raised(ratio) THEN ratio
        ELSE Ret([symbols |-> symbols,
                  weights |-> [i \in 1..Len(weights) |-> Pct(weights[i])],
                  period |-> period,
                  portfolio_metrics |->
                      [annual_return |-> Pct(FMul(mean(portfolio_returns), Int2F(TradingDays))),
                       volatility |-> Pct(portfolio_vol),
                       sharpe_ratio |-> Round2(portfolio_sharpe),
                       max_drawdown |-> Round2(portfolio_max_drawdown(portfolio_returns))],
                  individual_metrics |-> individual_metrics,
                  diversification_ratio |-> ratio.value])

\* After the fetch loop: align, weigh, report.
portfolio_aligned(symbols, weights, period, fetched, returns_df) ==
    IF Rows(returns_df) = 0
    THEN Ended(Ret([error |-> Text("No overlapping data found for portfolio analysis")]),
               fetched, Some(weights))
    ELSE IF Len(weights) # Len(returns_df.columns)
    THEN Ended(Raise("ValueError", "Unable to coerce to Series"), fetched, Some(weights))
    ELSE Ended(portfolio_report(symbols, weights, period, returns_df),
               fetched, Some(weights))

\* The fetch loop has run and ended as f.
portfolio_fetched(symbols, weights, period, f) ==
    IF f.out.kind # "continue" THEN Ended(f.out, f.fetched, Some(weights))
    ELSE portfolio_aligned(symbols, weights, period, f.fetched, aligned_frame(f.out.value))

\* The weights check ended as w; the period is validated next, then data is fetched.
portfolio_weighted(symbols, w, vp) ==
    IF w.kind # "continue" THEN Ended(w, <<>>, None)
    ELSE IF Raised(vp) THEN Ended(vp, <<>>, Some(w.value))
    ELSE portfolio_fetched(symbols, w.value, vp.value,
                           portfolio_fetch(symbols, EmptyDict, <<>>))

\* The symbols were validated as vs.
portfolio_validated(vs, weights, period) ==
    IF Raised(vs) THEN Ended(vs, <<>>, None)
    ELSE portfolio_weighted(vs.value, portfolio_weights(vs.value, weights),
                            validate_period(period))

get_portfolio_analysis_body(symbols, weights, period) ==
    IF symbols = <<>> THEN Ended(Ret([error |-> Text("No symbols provided")]), <<>>, None)
    ELSE IF Len(symbols) > MaxPortfolio
    THEN Ended(Ret([error |-> Text("Maximum 20 symbols allowed in portfolio")]), <<>>, None)
    ELSE portfolio_validated(validate_symbols(symbols), weights, period)

get_portfolio_analysis(symbols, weights, period) ==
    Handled(get_portfolio_analysis_body(symbols, weights, period))

(***************************************************************************)
(* The server as a state machine: a tool call arrives, its handler runs to *)
(* completion (no handler awaits anything), the response is delivered.     *)
(***************************************************************************)
VARIABLES call, result

\* The client of the server: FinanceMCPClient's session and is_connected.
VARIABLES session, is_connected

client == <<session, is_connected>>

vars == <<ALLOWED_SYMBOLS, RATE_LIMIT, market, call, result, session, is_connected>>

A == <<"A">>
B == <<"B">>
C == <<"C">>
D == <<"D">>
E == <<"E">>
G == <<"G">>
H == <<"H">>
L == <<"L">>

\* The bars of a long listing: pattern repeated up to n bars.
Cycle(pattern, n) == [i \in 1..n |-> pattern[((i - 1) % Len(pattern)) + 1]]

\* One bar more than the trend analysis asks for, which also gives more than 30
\* overlapping returns.
LongBars == MinTrendBars + 1

\* A and B gain 100% with the same two returns in a different order, C is flat,
\* D is listed with no bars, E has one bar, H falls and recovers, L has a long
\* history that repeats every three bars.
Listing ==
    (A :> <<1, 2, 2>>) @@ (B :> <<1, 1, 2>>) @@ (C :> <<2, 2, 2>>) @@ (D :> <<>>)
    @@ (E :> <<2>>) @@ (H :> <<2, 1, 2>>) @@ (L :> Cycle(<<1, 1, 3>>, LongBars))
    @@ (GSPC :> Cycle(<<1, 2, 1>>, LongBars))

Markets ==
    {[closes |-> Listing, down |-> {G}, noinfo |-> {H}],
     [closes |-> Listing, down |-> {G, GSPC}, noinfo |-> {}]}

\* Arguments of the calls.
SymbolArgs ==
    {Str(A), Str(<<"a">>), Str(<<" ", "B">>), Str(C), Str(D), Str(E), Str(G), Str(H),
     Str(L),
     Str(<<"B", "-", "A">>), Str(GSPC), Str(<<" ">>), Str(<<>>), NotAStr}

ListSymbolArgs == {Str(A), Str(B), Str(C), Str(D), Str(E), Str(G), Str(L), Str(GSPC)}

\* The first and the last valid period and the three defaults, and three periods
\* that are not valid: unknown, wrong case, empty.
PeriodArgs == {"1d", "1mo", "6mo", "1y", "max", "1w", "1Y", ""}
ListPeriodArgs == {"1y", "1w"}

BenchmarkArgs == {Str(GSPC), Str(B), Str(D), Str(G), Str(L)}

MetricsArgs == {None, Some(<<"volatility">>), Some(<<"returns", "volatility", "sharpe", "beta">>)}

RECURSIVE SeqsUpTo(_, _)
SeqsUpTo(S, n) ==
    IF n = 0 THEN {<<>>}
    ELSE LET shorter == SeqsUpTo(S, n - 1)
         IN  shorter \cup {Append(q, x) : q \in {r \in shorter : Len(r) = n - 1}, x \in S}

Repeat(x, n) == [i \in 1..n |-> x]

\* Every list of at most MaxSymbols symbols, lists at and just over each limit,
\* and lists with symbols in lower case or padded, one of them naming A twice.
SymbolListArgs ==
    SeqsUpTo(ListSymbolArgs, MaxSymbols)
    \cup {Repeat(Str(A), n) : n \in {MaxCompare, MaxCompare + 1, MaxPortfolio, MaxPortfolio + 1}}
    \cup {<<Str(<<" ", "B">>), Str(D), Str(<<"a">>)>>, <<Str(<<"a">>), Str(D), Str(A)>>}

\* For n symbols: omitted, empty, an equal split, a split off by 0.005, a split off
\* by 0.02, and an equal split of the wrong length.
WeightsArgs(n) ==
    LET split(k) == [i \in 1..k |-> Rat(1, k)]
        off(k, e) == [i \in 1..k |-> IF i = 1 THEN FAdd(Rat(1, k), e) ELSE Rat(1, k)]
    IN  {None, Some(<<>>), Some(split(n + 1))}
        \cup (IF n = 0 THEN {}
              ELSE {Some(split(n)), Some(off(n, Rat(1, 200))), Some(off(n, Rat(2, 100)))})

Idle == [op |-> "idle"]

\* No call is being answered.
NoResult == Ended(None, <<>>, None)

Init ==
    /\ ALLOWED_SYMBOLS = {}
    /\ RATE_LIMIT = [k \in {} |-> 0]
    /\ market \in Markets
    /\ call = Idle
    /\ result = NoResult
    /\ session = None
    /\ is_connected = FALSE

\* The provider's data changes between calls.
ProviderUpdate ==
    /\ call = Idle
    /\ market' \in Markets \ {market}
    /\ UNCHANGED <<ALLOWED_SYMBOLS, RATE_LIMIT, call, result, client>>

\* The handler with a limiter that notes the symbols it was called with.
GetStockPriceCounted ==
    /\ call = Idle
    /\ \E symbol \in SymbolArgs, period \in PeriodArgs :
          /\ call' = [op |-> "get_stock_price", symbol |-> symbol, period |-> period]
          /\ result' = get_stock_price(symbol, period)
          /\ RATE_LIMIT' = (symbol :> 1) @@ RATE_LIMIT
    /\ UNCHANGED <<ALLOWED_SYMBOLS, market, client>>

GetStockPrice ==
    /\ call = Idle
    /\ \E symbol \in SymbolArgs, period \in PeriodArgs :
          /\ call' = [op |-> "get_stock_price", symbol |-> symbol, period |-> period]
          /\ result' = get_stock_price(symbol, period)
    /\ UNCHANGED <<ALLOWED_SYMBOLS, RATE_LIMIT, market, client>>

GetVolatilityAnalysis ==
    /\ call = Idle
    /\ \E symbol \in SymbolArgs, period \in PeriodArgs :
          /\ call' = [op |-> "get_volatility_analysis", symbol |-> symbol, period |-> period]
          /\ result' = get_volatility_analysis(symbol, period)
    /\ UNCHANGED <<ALLOWED_SYMBOLS, RATE_LIMIT, market, client>>

GetTrendAnalysis ==
    /\ call = Idle
    /\ \E symbol \in SymbolArgs, period \in PeriodArgs :
          /\ call' = [op |-> "get_trend_analysis", symbol |-> symbol, period |-> period]
          /\ result' = get_trend_analysis(symbol, period)
    /\ UNCHANGED <<ALLOWED_SYMBOLS, RATE_LIMIT, market, client>>

GetRiskAnalysis ==
    /\ call = Idle
    /\ \E symbol \in SymbolArgs, period \in PeriodArgs, benchmark \in BenchmarkArgs :
          /\ call' = [op |-> "get_risk_analysis", symbol |-> symbol, period |-> period,
                      benchmark |-> benchmark]
          /\ result' = get_risk_analysis(symbol, period, benchmark)
    /\ UNCHANGED <<ALLOWED_SYMBOLS, RATE_LIMIT, market, client>>

CompareStocks ==
    /\ call = Idle
    /\ \E symbols \in SymbolListArgs, period \in ListPeriodArgs, metrics \in MetricsArgs :
          /\ call' = [op |-> "compare_stocks", symbols |-> symbols, period |-> period,
                      metrics |-> metrics]
          /\ result' = compare_stocks(symbols, period, metrics)
    /\ UNCHANGED <<ALLOWED_SYMBOLS, RATE_LIMIT, market, client>>

GetPortfolioAnalysis ==
    /\ call = Idle
    /\ \E symbols \in SymbolListArgs, period \in ListPeriodArgs :
          \E w \in WeightsArgs(Len(symbols)) :
             /\ call' = [op |-> "get_portfolio_analysis", symbols |-> symbols,
                         weights |-> w, period |-> period]
             /\ result' = get_portfolio_analysis(symbols, w, period)
    /\ UNCHANGED <<ALLOWED_SYMBOLS, RATE_LIMIT, market, client>>

\* The response goes back to the caller; nothing of the call is kept.
Respond ==
    /\ call # Idle
    /\ call' = Idle
    /\ result' = NoResult
    /\ UNCHANGED <<ALLOWED_SYMBOLS, RATE_LIMIT, market, client>>

Next ==
    \/ ProviderUpdate
    \/ GetStockPrice
    \/ GetVolatilityAnalysis
    \/ GetTrendAnalysis
    \/ GetRiskAnalysis
    \/ CompareStocks
    \/ GetPortfolioAnalysis
    \/ Respond

Spec == Init /\ [][Next]_vars

(***************************************************************************)
(* The calculation helpers on their own: each is applied to arguments      *)
(* drawn from small sets, and its value is the result of the call.         *)
(***************************************************************************)
MaxBars == 4
MaxClose == 3

\* Every series of at most MaxBars closes between 1 and MaxClose.
CloseSeries == SeqsUpTo(1..MaxClose, MaxBars)

\* Numbers to divide: zero, rationals of either sign, a surd and NaN.
DivideArgs == {Zero, One, Rat(-1, 2), Rat(3, 100), FSqrt(Int2F(2)), NaN}

\* The default rate, a negative one, a larger one and none at all.
RiskFreeRateArgs == {RiskFreeRate, Rat(-1, 100), Rat(5, 100), Zero}

SafeDivide ==
    /\ call = Idle
    /\ \E a \in DivideArgs, b \in DivideArgs :
          /\ call' = [op |-> "safe_divide", a |-> a, b |-> b]
          /\ result' = Done(Ret(safe_divide(a, b)), <<>>)
    /\ UNCHANGED <<ALLOWED_SYMBOLS, RATE_LIMIT, market, client>>

CalculateReturns ==
    /\ call = Idle
    /\ \E closes \in CloseSeries :
          /\ call' = [op |-> "calculate_returns", prices |-> Frame(closes)]
          /\ result' = Done(Ret(calculate_returns(Frame(closes))), <<>>)
    /\ UNCHANGED <<ALLOWED_SYMBOLS, RATE_LIMIT, market, client>>

\* calculate_volatility on the returns of a price series.
CalculateVolatility ==
    /\ call = Idle
    /\ \E closes \in CloseSeries, annualize \in BOOLEAN :
          /\ call' = [op |-> "calculate_volatility", prices |-> Frame(closes),
                      annualize |-> annualize]
          /\ result' = Done(Ret(calculate_volatility(calculate_returns(Frame(closes)),
                                                     annualize)), <<>>)
    /\ UNCHANGED <<ALLOWED_SYMBOLS, RATE_LIMIT, market, client>>

\* calculate_sharpe_ratio on the returns of a price series.
CalculateSharpeRatio ==
    /\ call = Idle
    /\ \E closes \in CloseSeries, risk_free_rate \in RiskFreeRateArgs :
          /\ call' = [op |-> "calculate_sharpe_ratio", prices |-> Frame(closes),
                      risk_free_rate |-> risk_free_rate]
          /\ result' = Done(Ret(calculate_sharpe_ratio(calculate_returns(Frame(closes)),
                                                       risk_free_rate)), <<>>)
    /\ UNCHANGED <<ALLOWED_SYMBOLS, RATE_LIMIT, market, client>>

\* Volatilities at, just below and away from the two thresholds of the risk
\* rating, the volatility of one return of 1% among returns of 0, and NaN.
VolatilityArgs ==
    {Zero, Rat(1499, 10000), Rat(15, 100), Rat(2, 10), Rat(2499, 10000), Rat(25, 100),
     Rat(3, 10), FMul(Rat(1, 100), FSqrt(Int2F(TradingDays))), NaN}

\* The risk_rating expression of get_risk_analysis.
RiskRating ==
    /\ call = Idle
    /\ \E volatility \in VolatilityArgs :
          /\ call' = [op |-> "risk_rating", volatility |-> volatility]
          /\ result' = Done(Ret(risk_rating(volatility)), <<>>)
    /\ UNCHANGED <<ALLOWED_SYMBOLS, RATE_LIMIT, market, client>>

\* The longest symbol argument validate_symbol is applied to on its own.
MaxChars == 3

\* Characters of every kind the validation tells apart: upper and lower case
\* letters, whitespace, the two separators it allows and one it does not.
SymbolChars == {"A", "a", "b", " ", ".", "-", "^"}

\* Every string of these characters, the empty one included, and a non-string.
SymbolTexts == {Str(chars) : chars \in SeqsUpTo(SymbolChars, MaxChars)} \cup {NotAStr}

ValidateSymbol ==
    /\ call = Idle
    /\ \E symbol \in SymbolTexts :
          /\ call' = [op |-> "validate_symbol", symbol |-> symbol]
          /\ result' = Done(validate_symbol(symbol), <<>>)
    /\ UNCHANGED <<ALLOWED_SYMBOLS, RATE_LIMIT, market, client>>

CalcNext ==
    \/ ValidateSymbol
    \/ SafeDivide
    \/ CalculateReturns
    \/ CalculateVolatility
    \/ CalculateSharpeRatio
    \/ RiskRating
    \/ Respond

CalcSpec == Init /\ [][CalcNext]_vars

(***************************************************************************)
(* get_risk_analysis against a provider with longer histories, around the  *)
(* 30 aligned returns the analysis asks for.                               *)
(***************************************************************************)
\* One bar more than MinOverlap returns need, and the bars that give exactly
\* MinOverlap returns.
OverlapBars == MinOverlap + 1

\* A and B have exactly MinOverlap returns, D one fewer, L twenty more; C is
\* flat, E has one bar, G doubles every day, H falls to a half and recovers.
RiskListing ==
    (A :> Cycle(<<1, 1, 3>>, OverlapBars)) @@ (B :> Cycle(<<1, 2, 1>>, OverlapBars))
    @@ (C :> Cycle(<<2>>, OverlapBars + 2)) @@ (D :> Cycle(<<1, 1, 3>>, OverlapBars - 1))
    @@ (E :> <<2>>) @@ (G :> [i \in 1..OverlapBars |-> 2 ^ (i - 1)])
    @@ (H :> Cycle(<<2, 1, 2>>, OverlapBars + 2)) @@ (L :> Cycle(<<1, 1, 3>>, LongBars))

\* The provider answers every request, or fails on L.
RiskMarkets ==
    {[closes |-> RiskListing, down |-> {}, noinfo |-> {}],
     [closes |-> RiskListing, down |-> {L}, noinfo |-> {}]}

RiskInit ==
    /\ ALLOWED_SYMBOLS = {}
    /\ RATE_LIMIT = [k \in {} |-> 0]
    /\ market \in RiskMarkets
    /\ call = Idle
    /\ result = NoResult
    /\ session = None
    /\ is_connected = FALSE

RiskProviderUpdate ==
    /\ call = Idle
    /\ market' \in RiskMarkets \ {market}
    /\ UNCHANGED <<ALLOWED_SYMBOLS, RATE_LIMIT, call, result, client>>

RiskNext ==
    \/ RiskProviderUpdate
    \/ GetRiskAnalysis
    \/ Respond

RiskSpec == RiskInit /\ [][RiskNext]_vars

(***************************************************************************)
(* get_trend_analysis against a provider with histories around the 50 bars *)
(* the analysis asks for and the 200 bars of its longest average.          *)
(***************************************************************************)
\* The window of ma_200.
LongWindow == 200

\* Price shapes over n bars.  Rising and Falling move by 1 a day and Flat stays
\* at 2.  The others stay at one level up to 50 bars before the end, move to a
\* second level for 30 bars and to a third for 19, and close at a last price.
Rising(n) == [i \in 1..n |-> i]
Falling(n) == [i \in 1..n |-> n + 1 - i]
Flat(n) == [i \in 1..n |-> 2]

Stepped(n, early, second, third, close) ==
    [i \in 1..n |-> IF i <= n - 50 THEN early
                    ELSE IF i <= n - 20 THEN second
                    ELSE IF i < n THEN third ELSE close]

\* A closes above all its averages, B below them and C at them; D is above its
\* long average only, E above its short and its long average, H above its
\* medium and its long average, L above its short and its medium average.
TrendListing(n) ==
    (A :> Rising(n)) @@ (B :> Falling(n)) @@ (C :> Flat(n))
    @@ (D :> Stepped(n, 1, 10, 10, 5)) @@ (E :> Stepped(n, 1, 4, 1, 2))
    @@ (H :> Stepped(n, 1, 1, 4, 3)) @@ (L :> Stepped(n, 10, 1, 1, 2))

\* Every symbol has one bar too few for the analysis, just enough, one too few
\* for ma_200, or just enough for it; the provider fails on G.
TrendBars == {MinTrendBars - 1, MinTrendBars, LongWindow - 1, LongWindow}

TrendMarkets == {[closes |-> TrendListing(n), down |-> {G}, noinfo |-> {}] : n \in TrendBars}

TrendInit ==
    /\ ALLOWED_SYMBOLS = {}
    /\ RATE_LIMIT = [k \in {} |-> 0]
    /\ market \in TrendMarkets
    /\ call = Idle
    /\ result = NoResult
    /\ session = None
    /\ is_connected = FALSE

TrendProviderUpdate ==
    /\ call = Idle
    /\ market' \in TrendMarkets \ {market}
    /\ UNCHANGED <<ALLOWED_SYMBOLS, RATE_LIMIT, call, result, client>>

TrendNext ==
    \/ TrendProviderUpdate
    \/ GetTrendAnalysis
    \/ Respond

TrendSpec == TrendInit /\ [][TrendNext]_vars

(***************************************************************************)
(* Properties.  While a call is being answered, `call` holds its arguments *)
(* and `result` what its handler did.                                      *)
(***************************************************************************)
\* The handler returned a map (it did not raise), and the map it returned.
Returned == result.out.kind = "return"
Map == result.out.value

HasError(m) == "error" \in DOMAIN m

\* A symbol argument the validation accepts, and the ticker it stands for.
WellFormed(symbol) == ~Raised(validate_symbol(symbol))
Ticker(symbol) == validate_symbol(symbol).value

\* The provider answers the request for this ticker.
Answers(ticker) == ~Raised(history(ticker))

\* A symbol argument for which the provider has bars.
HasData(symbol) ==
    /\ WellFormed(symbol)
    /\ Answers(Ticker(symbol))
    /\ history(Ticker(symbol)).value # <<>>

ValidPeriod(period) == ~Raised(validate_period(period))

\* The three rankings of compare_stocks: result key, metric, whether lowest wins.
Rankings ==
    {<<"best_return_symbol", "total_return", FALSE>>,
     <<"best_sharpe_symbol", "sharpe_ratio", FALSE>>,
     <<"lowest_volatility_symbol", "volatility", TRUE>>}

\* The entries of the comparison that carry the metric.
Produced(metric) ==
    {k \in Range(Map.comparison.keys) : metric \in DOMAIN Map.comparison.val[k]}

\* The symbols whose value of the metric is a number that no other symbol's beats.
Winners(metric, lowest) ==
    {k \in Produced(metric) :
        /\ ~IsNaN(Map.comparison.val[k][metric])
        /\ \A j \in Produced(metric) :
              IF lowest
              THEN ~FLt(Map.comparison.val[j][metric], Map.comparison.val[k][metric])
              ELSE ~FGt(Map.comparison.val[j][metric], Map.comparison.val[k][metric])}

\* The first symbol of the call, in input order, whose ticker is in S.
FirstIn(S) ==
    Ticker(call.symbols[CHOOSE i \in 1..Len(call.symbols) :
                            /\ Ticker(call.symbols[i]) \in S
                            /\ \A j \in 1..(i - 1) : Ticker(call.symbols[j]) \notin S])

\* The key under which the comparison would hold a symbol argument's entry.
EntryOf(symbol) == IF WellFormed(symbol) THEN Ticker(symbol) ELSE symbol.chars

\* C1: in compare_stocks, for a list of 2 to 10 symbols of which some are invalid
\* or have no data and the others are valid (the period being valid and the
\* benchmark request answered), the result has no top-level error, every valid
\* symbol's entry carries its metrics and every failing symbol's entry carries
\* only an error field.
C1_PartialFailureKeepsBatch ==
    (/\ call.op = "compare_stocks"
     /\ Len(call.symbols) \in MinCompare..MaxCompare
     /\ ValidPeriod(call.period)
     /\ Answers(GSPC)
     /\ \E i \in 1..Len(call.symbols) : ~HasData(call.symbols[i])
     /\ \E i \in 1..Len(call.symbols) : HasData(call.symbols[i]))
    => /\ Returned
       /\ ~HasError(Map)
       /\ \A i \in 1..Len(call.symbols) :
             /\ EntryOf(call.symbols[i]) \in Range(Map.comparison.keys)
             /\ IF HasData(call.symbols[i])
                THEN /\ {"current_price", "total_return", "data_points"}
                           \subseteq DOMAIN Map.comparison.val[EntryOf(call.symbols[i])]
                     /\ ~HasError(Map.comparison.val[EntryOf(call.symbols[i])])
                ELSE DOMAIN Map.comparison.val[EntryOf(call.symbols[i])] = {"error"}

\* C1: comparing A, ^GSPC and B, of which A and B have data, is answered with an
\* error map and no comparison at all.
C1_BatchAborted ==
    /\ call.op = "compare_stocks"
    /\ call.symbols = <<Str(A), Str(GSPC), Str(B)>>
    /\ call.period = "1y"
    /\ Answers(GSPC)
    /\ Returned
    /\ DOMAIN Map = {"error"}
    /\ Map.error = Text("Invalid symbol format")

\* C2: each ranking of compare_stocks names one of the symbols that produced its
\* metric whenever at least one symbol produced it, and is null only if none did,
\* whatever the winning value is.
C2_RankingNamesWinner ==
    (call.op = "compare_stocks" /\ Returned /\ ~HasError(Map))
    => \A r \in Rankings :
          /\ (Map[r[1]] = None) <=> (Produced(r[2]) = {})
          /\ Map[r[1]] # None => Get(Map[r[1]]) \in Produced(r[2])

\* C2: comparing the flat C with D, which has no data, C produced a total return
\* (of 0) and yet no best-return symbol is named.
C2_ZeroWinnerUnnamed ==
    /\ call.op = "compare_stocks"
    /\ call.symbols = <<Str(C), Str(D)>>
    /\ Returned
    /\ ~HasError(Map)
    /\ Produced("total_return") = {C}
    /\ Map.comparison.val[C].total_return = Zero
    /\ Map.best_return_symbol = None

\* C3: when several symbols tie on the winning value of a ranking, the ranking
\* reports the one that comes first in input order.
C3_FirstWinsTies ==
    (call.op = "compare_stocks" /\ Returned /\ ~HasError(Map))
    => \A r \in Rankings :
          Cardinality(Winners(r[2], r[3])) >= 2
          => Map[r[1]] = Some(FirstIn(Winners(r[2], r[3])))

\* C3: C and E tie on the best total return, 0, and no symbol is reported; with
\* the roles of A and B, which tie on 100, the first one is reported.
C3_ZeroTieUnreported ==
    /\ call.op = "compare_stocks"
    /\ call.symbols = <<Str(C), Str(E)>>
    /\ Returned
    /\ ~HasError(Map)
    /\ Winners("total_return", FALSE) = {C, E}
    /\ Map.best_return_symbol = None

\* What the body of the call's handler did, before the handler's except clause.
Body ==
    CASE call.op = "get_stock_price" -> get_stock_price_body(call.symbol, call.period)
      [] call.op = "get_volatility_analysis" ->
             get_volatility_analysis_body(call.symbol, call.period)
      [] call.op = "get_trend_analysis" -> get_trend_analysis_body(call.symbol, call.period)
      [] call.op = "get_risk_analysis" ->
             get_risk_analysis_body(call.symbol, call.period, call.benchmark)
      [] call.op = "compare_stocks" ->
             compare_stocks_body(call.symbols, call.period, call.metrics)
      [] call.op = "get_portfolio_analysis" ->
             get_portfolio_analysis_body(call.symbols, call.weights, call.period)

\* The symbol arguments of the call.
SymbolsOf(c) ==
    CASE c.op \in {"compare_stocks", "get_portfolio_analysis"} -> c.symbols
      [] c.op = "get_risk_analysis" -> <<c.symbol, c.benchmark>>
      [] OTHER -> <<c.symbol>>

\* A symbol argument or the period of the call is malformed.
Malformed(c) ==
    \/ ~ValidPeriod(c.period)
    \/ \E i \in 1..Len(SymbolsOf(c)) : ~WellFormed(SymbolsOf(c)[i])

\* The provider failed on the ticker, and the failure is reported: by the map itself,
\* or for a compared symbol by the symbol's entry.
FailureReported(ticker) ==
    \/ HasError(Map)
    \/ /\ call.op = "compare_stocks"
       /\ ticker \in Range(Map.comparison.keys)
       /\ HasError(Map.comparison.val[ticker])

\* C4: no entry point raises past its boundary: every call returns a map, and the
\* map has an error field whenever the body raised, an argument was malformed, or
\* a request to the provider failed (for a compared symbol, its entry has it).
C4_NeverRaises ==
    call # Idle
    => /\ Returned
       /\ Raised(Body.out) => HasError(Map)
       /\ Malformed(call) => HasError(Map)
       /\ \A i \in 1..Len(result.fetched) :
             ~Answers(result.fetched[i]) => FailureReported(result.fetched[i])

\* C4: the provider fails on G while get_stock_price is inside its try, and the
\* call returns an error map.
C4_ProviderFailureCaught ==
    /\ call.op = "get_stock_price"
    /\ call.symbol = Str(G)
    /\ result.fetched = <<G>>
    /\ ~Answers(G)
    /\ Raised(Body.out)
    /\ Returned
    /\ DOMAIN Map = {"error"}

\* A map with an error field has no other field.
ErrorOnly(m) == HasError(m) => DOMAIN m = {"error"}

\* The fields every per-symbol entry with metrics carries.
EntryMetrics == {"current_price", "total_return", "data_points"}

\* C5: every returned map is an error map or a data map, never a mix: a top-level
\* error field stands alone, and every entry of a comparison has either only an
\* error field or its metrics and no error field.
C5_ErrorOrData ==
    (call # Idle /\ Returned)
    => /\ ErrorOnly(Map)
       /\ (call.op = "compare_stocks" /\ ~HasError(Map))
          => \A k \in Range(Map.comparison.keys) :
                /\ ErrorOnly(Map.comparison.val[k])
                /\ ~HasError(Map.comparison.val[k])
                   => EntryMetrics \subseteq DOMAIN Map.comparison.val[k]

\* C5: a comparison of A with D holds a data entry for A and an error-only entry
\* for D.
C5_MixedBatch ==
    /\ call.op = "compare_stocks"
    /\ call.symbols = <<Str(A), Str(D)>>
    /\ Returned
    /\ ~HasError(Map)
    /\ DOMAIN Map.comparison.val[D] = {"error"}
    /\ EntryMetrics \subseteq DOMAIN Map.comparison.val[A]
    /\ ~HasError(Map.comparison.val[A])

\* How far the sum of the weights is from 1.0.
Deviation(ws) == FAbs(FSub(py_sum(ws), One))

\* A portfolio call whose symbols pass the checks that come before the weights.
SymbolsAccepted ==
    /\ call.op = "get_portfolio_analysis"
    /\ Len(call.symbols) \in 1..MaxPortfolio
    /\ \A i \in 1..Len(call.symbols) : WellFormed(call.symbols[i])

\* C6: explicitly supplied weights of the wrong length, or whose sum deviates from
\* 1.0 by more than 0.01, are rejected with an error before any data is fetched;
\* other supplied weights are used exactly as given.
C6_WeightsValidated ==
    (SymbolsAccepted /\ call.weights # None)
    => IF \/ Len(Get(call.weights)) # Len(call.symbols)
          \/ FGt(Deviation(Get(call.weights)), WeightTolerance)
       THEN Returned /\ HasError(Map) /\ result.fetched = <<>>
       ELSE result.weights = call.weights

\* C6: an empty weights list supplied for one symbol is not rejected: the data is
\* fetched and the analysis runs with weight 1.0.
C6_EmptyWeightsAccepted ==
    /\ call.op = "get_portfolio_analysis"
    /\ call.symbols = <<Str(A)>>
    /\ call.weights = Some(<<>>)
    /\ result.fetched = <<A>>
    /\ result.weights = Some(<<One>>)

\* C7: when weights are omitted for n symbols, 1 <= n <= 20, the weights used are
\* 1/n for every symbol, and they sum to 1.0 within the tolerance of 0.01.
C7_EqualWeightsByDefault ==
    (SymbolsAccepted /\ call.weights = None)
    => /\ result.weights =
              Some([i \in 1..Len(call.symbols) |-> Rat(1, Len(call.symbols))])
       /\ ~FGt(Deviation(Get(result.weights)), WeightTolerance)

\* C7: twenty symbols without weights are given 1/20 each.
C7_TwentyEqualWeights ==
    /\ call.op = "get_portfolio_analysis"
    /\ call.weights = None
    /\ Len(call.symbols) = MaxPortfolio
    /\ result.weights = Some([i \in 1..MaxPortfolio |-> Rat(1, MaxPortfolio)])
    /\ result.fetched # <<>>

\* The portfolio call got as far as fetching data.
FetchReached == SymbolsAccepted /\ result.weights # None /\ ValidPeriod(call.period)

\* C8: in the fetch phase a symbol without data is isolated to that symbol: when
\* the provider answers every request and at least one symbol has data, the call
\* does not end with a symbol's no-data error.
C8_EmptySeriesIsolated ==
    (/\ FetchReached
     /\ \A i \in 1..Len(call.symbols) : Answers(Ticker(call.symbols[i]))
     /\ \E i \in 1..Len(call.symbols) : HasData(call.symbols[i]))
    => /\ Returned
       /\ \A i \in 1..Len(call.symbols) :
             ~(/\ HasError(Map)
               /\ Map.error = FStr("No data available for ", Ticker(call.symbols[i])))

\* C8: the portfolio of A, which has data, and D, which has none, fails as a whole
\* with D's no-data error.
C8_OneEmptySeriesFailsAll ==
    /\ call.op = "get_portfolio_analysis"
    /\ call.symbols = <<Str(A), Str(D)>>
    /\ call.weights = None
    /\ HasData(Str(A))
    /\ result.fetched = <<A, D>>
    /\ Returned
    /\ Map = [error |-> FStr("No data available for ", D)]

\* The provider has at least n bars for the symbol argument.
HasBars(symbol, n) == HasData(symbol) /\ Len(history(Ticker(symbol)).value) >= n

\* C9: a portfolio of a single symbol with valid data and weight 1.0, given or
\* defaulted, gets a report with no error whose diversification_ratio is 1.0.
C9_SingleSymbolRatioIsOne ==
    (/\ call.op = "get_portfolio_analysis"
     /\ Len(call.symbols) = 1
     /\ HasBars(call.symbols[1], 3)
     /\ call.weights \in {None, Some(<<One>>)}
     /\ ValidPeriod(call.period))
    => /\ Returned
       /\ ~HasError(Map)
       /\ Map.diversification_ratio = One

\* C9: the portfolio of A alone ends in the TypeError of weights ** 2.
C9_SingleSymbolTypeError ==
    /\ call.op = "get_portfolio_analysis"
    /\ call.symbols = <<Str(A)>>
    /\ call.weights = None
    /\ call.period = "1y"
    /\ HasBars(Str(A), 3)
    /\ result.weights = Some(<<One>>)
    /\ Returned
    /\ Map = [error |-> Text(pow_list(<<One>>).msg)]

\* The frame of aligned returns the call's analysis works on.
ReturnsOfCall ==
    aligned_frame(portfolio_fetch([i \in 1..Len(call.symbols) |-> Ticker(call.symbols[i])],
                                  EmptyDict, <<>>).out.value)

\* sum of w_i * sigma_i over the columns 1..n
RECURSIVE WeightedVolatility(_, _, _)
WeightedVolatility(returns_df, ws, n) ==
    IF n = 0 THEN Zero
    ELSE FAdd(WeightedVolatility(returns_df, ws, n - 1),
              FMul(ws[n], std(returns_df.col[returns_df.columns[n]])))

\* sqrt(w' Cov w)
CovarianceVolatility(returns_df, ws) ==
    FSqrt(dot(ws,
              [i \in 1..Len(ws) |-> dot(cov_matrix(returns_df)[i], ws, Len(ws))],
              Len(ws)))

\* The symbols of the call are distinct, all have at least n bars, and the call
\* got as far as fetching them.
Analysed(n) ==
    /\ FetchReached
    /\ \A i \in 1..Len(call.symbols) : HasBars(call.symbols[i], n)
    /\ \A i, j \in 1..Len(call.symbols) :
          Ticker(call.symbols[i]) = Ticker(call.symbols[j]) => i = j

\* C10: the diversification_ratio reported is the weighted sum of the symbols'
\* volatilities divided by the portfolio volatility from the full covariance
\* matrix, rounded to 2 decimals, for every weight vector and covariance matrix.
C10_RatioIsWeightedOverPortfolio ==
    Analysed(3)
    => /\ Returned
       /\ ~HasError(Map)
       /\ Map.diversification_ratio =
              Round2(FDiv(WeightedVolatility(ReturnsOfCall, Get(result.weights),
                                             Len(call.symbols)),
                          CovarianceVolatility(ReturnsOfCall, Get(result.weights))))

\* C10: the portfolio of A and B at one half each reports no ratio at all: it ends
\* in the TypeError of weights ** 2.
C10_NoRatioReported ==
    /\ call.op = "get_portfolio_analysis"
    /\ call.symbols = <<Str(A), Str(B)>>
    /\ call.weights = Some(<<Rat(1, 2), Rat(1, 2)>>)
    /\ Analysed(3)
    /\ result.fetched = <<A, B>>
    /\ Returned
    /\ DOMAIN Map = {"error"}
    /\ Map.error = Text(pow_list(Get(result.weights)).msg)

\* The provider has exactly one bar for the symbol argument.
OneBar(symbol) == HasData(symbol) /\ Len(history(Ticker(symbol)).value) = 1

\* C11: a price series of a single bar gets an error and no metrics wherever a
\* return series is derived from it: the answer of get_volatility_analysis, the
\* symbol's entry in a comparison that compare_stocks returns, and the answer of
\* get_portfolio_analysis.
C11_OneBarIsAnError ==
    /\ (/\ call.op = "get_volatility_analysis"
        /\ OneBar(call.symbol)
        /\ ValidPeriod(call.period))
       => (Returned /\ HasError(Map))
    /\ (/\ call.op = "compare_stocks"
        /\ Returned
        /\ ~HasError(Map))
       => \A i \in 1..Len(call.symbols) :
             OneBar(call.symbols[i]) => HasError(Map.comparison.val[Ticker(call.symbols[i])])
    /\ (/\ call.op = "get_portfolio_analysis"
        /\ \E i \in 1..Len(call.symbols) : OneBar(call.symbols[i]))
       => (Returned /\ HasError(Map))

\* C11: compared with A, the one-bar symbol E gets an entry of metrics (a total
\* return of 0 and a volatility that is not a number) and no error.
C11_OneBarGetsMetrics ==
    /\ call.op = "compare_stocks"
    /\ call.symbols = <<Str(A), Str(E)>>
    /\ call.metrics = None
    /\ OneBar(Str(E))
    /\ Returned
    /\ ~HasError(Map)
    /\ ~HasError(Map.comparison.val[E])
    /\ Map.comparison.val[E].data_points = 1
    /\ Map.comparison.val[E].total_return = Zero
    /\ IsNaN(Map.comparison.val[E].volatility)

\* Every bar of the price series closes at the same price.
ConstantPrices(prices) == \A i, j \in 1..Len(prices) : prices[i].v = prices[j].v

\* C12: for a constant-price series of at least 2 bars the volatility is 0 and,
\* whatever the non-zero risk-free rate, calculate_sharpe_ratio returns 0;
\* safe_divide(a, b) returns 0 when b is exactly 0 and a / b otherwise.
C12_ConstantPricesGiveZero ==
    /\ (/\ call.op = "calculate_volatility"
        /\ Len(call.prices) >= 2
        /\ ConstantPrices(call.prices))
       => Map = Zero
    /\ (/\ call.op = "calculate_sharpe_ratio"
        /\ Len(call.prices) >= 2
        /\ ConstantPrices(call.prices)
        /\ call.risk_free_rate # Zero)
       => Map = Zero
    /\ call.op = "safe_divide"
       => Map = IF call.b = Zero THEN Zero ELSE FDiv(call.a, call.b)

\* C12: two bars at the same price give a single return, whose sample standard
\* deviation is not a number: so is the Sharpe ratio.
C12_TwoBarsGiveNaN ==
    /\ call.op = "calculate_sharpe_ratio"
    /\ call.prices = Frame(<<2, 2>>)
    /\ call.risk_free_rate = RiskFreeRate
    /\ Returned
    /\ IsNaN(Map)

\* C13: calculate_returns applied to a price series of n >= 1 bars yields exactly
\* n - 1 returns, the i-th being close[i+1] / close[i] - 1 at the date of bar
\* i + 1: the returns are in the date order of the bars.
C13_ReturnsAreOneFewer ==
    (call.op = "calculate_returns" /\ Len(call.prices) >= 1)
    => /\ Returned
       /\ Len(Map) = Len(call.prices) - 1
       /\ \A i \in 1..Len(Map) :
             /\ Map[i].date = call.prices[i + 1].date
             /\ Map[i].v = FSub(FDiv(call.prices[i + 1].v, call.prices[i].v), One)

\* C13: the four bars 1, 2, 2, 3 give the three returns 1, 0 and 1/2.
C13_ThreeReturnsOfFourBars ==
    /\ call.op = "calculate_returns"
    /\ call.prices = Frame(<<1, 2, 2, 3>>)
    /\ Returned
    /\ Map = <<Point(-2, One), Point(-1, Zero), Point(0, Rat(1, 2))>>

\* The stock returns a risk analysis of the call's symbol works on: those at the
\* dates the benchmark has a return for too.
StockAlignedOfCall ==
    Column(inner_join(calculate_returns(history(Ticker(call.symbol)).value),
                      calculate_returns(history(Ticker(call.benchmark)).value)),
           "stock")

\* The product of 1 + return over the first i returns.
RECURSIVE CumulativeAt(_, _)
CumulativeAt(s, i) ==
    IF i = 0 THEN One ELSE FMul(CumulativeAt(s, i - 1), FAdd(One, s[i].v))

\* The highest of the first i values of c.
PeakAt(c, i) == CHOOSE x \in {c[k] : k \in 1..i} : \A k \in 1..i : ~FLt(x, c[k])

\* C14: the max_drawdown that get_risk_analysis reports is a number, is never
\* above 0, and is 100 times the lowest (cumulative[i] - peak[i]) / peak[i],
\* to 2 decimals, where cumulative is the running product of 1 + return over
\* the aligned stock returns and peak its running maximum.
C14_DrawdownNeverPositive ==
    (call.op = "get_risk_analysis" /\ Returned /\ ~HasError(Map))
    => LET s == StockAlignedOfCall
           cumulative == [i \in 1..Len(s) |-> CumulativeAt(s, i)]
           drawdown == [i \in 1..Len(s) |->
                           FDiv(FSub(cumulative[i], PeakAt(cumulative, i)),
                                PeakAt(cumulative, i))]
       IN  /\ ~IsNaN(Map.max_drawdown)
           /\ ~FGt(Map.max_drawdown, Zero)
           /\ \E i \in 1..Len(s) :
                 /\ \A j \in 1..Len(s) : ~FLt(drawdown[j], drawdown[i])
                 /\ Map.max_drawdown = Round2(FMul(drawdown[i], Int2F(100)))

\* C14: H, which falls to a half and recovers again and again, is reported with a
\* max_drawdown of -50 against the benchmark L.
C14_HalvedAndRecovered ==
    /\ call.op = "get_risk_analysis"
    /\ call.symbol = Str(H)
    /\ call.benchmark = Str(L)
    /\ Returned
    /\ ~HasError(Map)
    /\ Len(StockAlignedOfCall) >= MinOverlap
    /\ Map.max_drawdown = Int2F(-50)

\* C15: a portfolio analysis of symbols that all have data reports, in its
\* portfolio_metrics, a max_drawdown that is a number and is never above 0.
C15_PortfolioDrawdownNeverPositive ==
    Analysed(2)
    => /\ Returned
       /\ ~HasError(Map)
       /\ ~IsNaN(Map.portfolio_metrics.max_drawdown)
       /\ ~FGt(Map.portfolio_metrics.max_drawdown, Zero)

\* C15: for the portfolio of L alone, whose returns repeat 0, 2, -2/3, the
\* max_drawdown expression of the report comes to 200/3, above 0, and the call
\* is answered with the TypeError of weights ** 2: no max_drawdown is reported.
C15_PositiveAndUnreported ==
    /\ call.op = "get_portfolio_analysis"
    /\ call.symbols = <<Str(L)>>
    /\ call.weights = None
    /\ Analysed(2)
    /\ portfolio_max_drawdown(weighted_returns(ReturnsOfCall, Get(result.weights)))
           = Rat(200, 3)
    /\ Returned
    /\ Map = [error |-> Text(pow_list(Get(result.weights)).msg)]

\* The closes the provider has for the symbol of the call, oldest first.
ClosesOfCall == market.closes[Ticker(call.symbol)]

\* The call is a trend analysis that was answered with a report.
TrendReported == call.op = "get_trend_analysis" /\ Returned /\ ~HasError(Map)

\* The percentage change of the last close over the close k bars earlier.
ChangeOver(closes, k) ==
    FMul(FSub(Rat(closes[Len(closes)], closes[Len(closes) - k]), One), Int2F(100))

\* C16: a trend report (there are at least 50 bars, more than either window)
\* gives momentum_10d and momentum_30d as the percentage change of the current
\* close over the close 10 and 30 bars earlier, to 2 decimals: neither is null,
\* and an unchanged price gives 0.
C16_MomentumIsChangeOverWindow ==
    TrendReported
    => /\ Map.momentum_10d = Some(Round2(ChangeOver(ClosesOfCall, 10)))
       /\ Map.momentum_30d = Some(Round2(ChangeOver(ClosesOfCall, 30)))

\* C16: C closes at 2 on each of its 50 bars, and both momenta are null.
C16_UnchangedPriceGivesNull ==
    /\ TrendReported
    /\ call.symbol = Str(C)
    /\ Len(ClosesOfCall) = MinTrendBars
    /\ ClosesOfCall[MinTrendBars] = ClosesOfCall[MinTrendBars - 10]
    /\ ClosesOfCall[MinTrendBars] = ClosesOfCall[MinTrendBars - 30]
    /\ Map.momentum_10d = None
    /\ Map.momentum_30d = None

\* The horizons of a trend report, and those it classifies as bullish.
Horizons == {"short_term_trend", "medium_term_trend", "long_term_trend"}
BullishHorizons == {h \in Horizons : Map[h] = "bullish"}

\* C17: a trend report gives overall_trend "bullish" if and only if at least 2
\* of its three horizon classifications are "bullish", and "bearish" otherwise;
\* with fewer than 200 bars the long horizon is "neutral" and the overall trend
\* is bullish only if both the short and the medium horizon are.
C17_OverallIsMajority ==
    TrendReported
    => /\ Map.overall_trend \in {"bullish", "bearish"}
       /\ Map.overall_trend = "bullish" <=> Cardinality(BullishHorizons) >= 2
       /\ Len(ClosesOfCall) < LongWindow
          => /\ Map.long_term_trend = "neutral"
             /\ Map.overall_trend = "bullish"
                <=> (/\ Map.short_term_trend = "bullish"
                     /\ Map.medium_term_trend = "bullish")

\* C17: with 200 bars E closes above its 20-bar and 200-bar averages and below
\* its 50-bar average: two bullish horizons of three, and a bullish overall trend.
C17_TwoOfThreeBullish ==
    /\ TrendReported
    /\ call.symbol = Str(E)
    /\ Len(ClosesOfCall) = LongWindow
    /\ Map.short_term_trend = "bullish"
    /\ Map.medium_term_trend = "bearish"
    /\ Map.long_term_trend = "bullish"
    /\ Map.overall_trend = "bullish"

\* The sum of closes[lo..hi], and of the last w closes.
RECURSIVE SumBetween(_, _, _)
SumBetween(closes, lo, hi) ==
    IF lo > hi THEN 0
    ELSE IF lo = hi THEN closes[lo]
    ELSE SumBetween(closes, lo, (lo + hi) \div 2)
         + SumBetween(closes, (lo + hi) \div 2 + 1, hi)

SumOfLast(closes, w) == SumBetween(closes, Len(closes) - w + 1, Len(closes))

\* The call is a trend analysis of a symbol the provider has bars for, over a
\* valid period.
TrendAsked ==
    /\ call.op = "get_trend_analysis"
    /\ HasData(call.symbol)
    /\ ValidPeriod(call.period)

\* C18: a trend analysis of fewer than 50 bars is answered with an error map; of
\* 50 to 199 bars with a report in which ma_200 and golden_cross are null; of
\* 200 bars or more with a report in which golden_cross is true if the average
\* of the last 50 closes exceeds the average of the last 200, and false if not.
C18_GoldenCrossOrNull ==
    TrendAsked
    => /\ Returned
       /\ HasError(Map) <=> Len(ClosesOfCall) < MinTrendBars
       /\ ErrorOnly(Map)
       /\ (Len(ClosesOfCall) >= MinTrendBars /\ Len(ClosesOfCall) < LongWindow)
          => (Map.ma_200 = None /\ Map.golden_cross = None)
       /\ Len(ClosesOfCall) >= LongWindow
          => /\ Map.ma_200 = Some(Round2(Rat(SumOfLast(ClosesOfCall, LongWindow), LongWindow)))
             /\ Map.golden_cross =
                    Some(SumOfLast(ClosesOfCall, MinTrendBars) * LongWindow
                         > SumOfLast(ClosesOfCall, LongWindow) * MinTrendBars)

\* C18: with 200 bars the falling B has its 50-bar average below its 200-bar
\* average, and its golden_cross is false, not null.
C18_DeathCrossIsFalse ==
    /\ TrendAsked
    /\ Ticker(call.symbol) = B
    /\ Len(ClosesOfCall) = LongWindow
    /\ Returned
    /\ ~HasError(Map)
    /\ SumOfLast(ClosesOfCall, MinTrendBars) * LongWindow
       < SumOfLast(ClosesOfCall, LongWindow) * MinTrendBars
    /\ Map.golden_cross = Some(FALSE)

\* x >= y, for numbers.
AtLeast(x, y) == FGt(x, y) \/ FEq(x, y)

\* C19: the risk rating is "Low" for an annualized volatility below 0.15,
\* "Medium" for one in [0.15, 0.25) and "High" for one at or above 0.25: exactly
\* 0.15 is Medium, exactly 0.25 is High, and every volatility gets one rating.
C19_RatingThresholds ==
    call.op = "risk_rating"
    => /\ Returned
       /\ Map \in {"Low", "Medium", "High"}
       /\ FLt(call.volatility, Rat(15, 100)) => Map = "Low"
       /\ (AtLeast(call.volatility, Rat(15, 100)) /\ FLt(call.volatility, Rat(25, 100)))
          => Map = "Medium"
       /\ AtLeast(call.volatility, Rat(25, 100)) => Map = "High"

\* C19: a volatility of exactly 0.15 is rated Medium.
C19_FifteenPercentIsMedium ==
    /\ call.op = "risk_rating"
    /\ call.volatility = Rat(15, 100)
    /\ Returned
    /\ Map = "Medium"

\* The dates at which the provider's closes for a ticker give a return: the date
\* of every bar but the first.
ReturnDates(ticker) ==
    {i - Len(market.closes[ticker]) : i \in 2..Len(market.closes[ticker])}

\* The call is a risk analysis of a symbol against a benchmark, the provider
\* having bars for both, over a valid period.
RiskAsked ==
    /\ call.op = "get_risk_analysis"
    /\ HasData(call.symbol)
    /\ HasData(call.benchmark)
    /\ ValidPeriod(call.period)

\* The number of dates at which both the stock and the benchmark have a return.
OverlapOfCall ==
    Cardinality(ReturnDates(Ticker(call.symbol)) \cap ReturnDates(Ticker(call.benchmark)))

\* The metrics of a risk report.
RiskMetrics ==
    {"volatility_annual", "sharpe_ratio", "beta", "var_5_percent", "var_1_percent",
     "max_drawdown", "downside_deviation", "risk_rating"}

\* C20: a risk analysis of a stock and a benchmark whose returns have fewer than
\* 30 dates in common is answered with the insufficient-overlap error and
\* nothing else; with 30 common dates or more it is answered with the metrics
\* and no error.
C20_OverlapDecides ==
    RiskAsked
    => /\ Returned
       /\ OverlapOfCall < MinOverlap
          => Map = [error |-> Text("Insufficient overlapping data for analysis")]
       /\ OverlapOfCall >= MinOverlap
          => (~HasError(Map) /\ RiskMetrics \subseteq DOMAIN Map)

\* C20: D has 29 returns, all at dates at which L has one too, and the analysis
\* of D against L ends in the insufficient-overlap error.
C20_TwentyNineInCommon ==
    /\ RiskAsked
    /\ call.symbol = Str(D)
    /\ call.benchmark = Str(L)
    /\ OverlapOfCall = MinOverlap - 1
    /\ Returned
    /\ Map = [error |-> Text("Insufficient overlapping data for analysis")]

\* The periods the entry points accept.
Periods == {"1d", "5d", "1mo", "3mo", "6mo", "1y", "2y", "5y", "10y", "ytd", "max"}

\* The entry points, all of which take a period.
EntryPoints ==
    {"get_stock_price", "get_volatility_analysis", "get_trend_analysis",
     "get_risk_analysis", "compare_stocks", "get_portfolio_analysis"}

\* C21: every entry point answers a period outside the eleven valid ones with an
\* error map and nothing else, having asked the provider for nothing; a period
\* among the eleven is never the reason of an error, and a report carries it
\* unchanged.
C21_PeriodValidatedFirst ==
    call.op \in EntryPoints
    => /\ Returned
       /\ \A period \in Periods : validate_period(period) = Ret(period)
       /\ call.period \notin Periods
          => /\ HasError(Map)
             /\ ErrorOnly(Map)
             /\ result.fetched = <<>>
       /\ call.period \in Periods
          => /\ HasError(Map) => Map.error # Text("Period must be one of the valid periods")
             /\ ~HasError(Map) => Map.period = call.period

\* C21: a stock price asked for A over "1w" is refused for its period, with no
\* request to the provider.
C21_UnknownPeriodRefused ==
    /\ call.op = "get_stock_price"
    /\ call.symbol = Str(A)
    /\ call.period = "1w"
    /\ Returned
    /\ Map = [error |-> Text("Period must be one of the valid periods")]
    /\ result.fetched = <<>>

\* The characters a validated symbol may hold.
SymbolAlphabet == UpperChars \cup LowerChars \cup {".", "-"}

\* C22: validate_symbol returns only for a non-empty string, and what it returns
\* is non-empty, has no lower-case letter, neither starts nor ends with
\* whitespace, holds only letters, digits, '.' and '-', and is returned as it is
\* when validated again; for every other argument it raises a ValueError.
C22_ValidatedSymbolShape ==
    call.op = "validate_symbol"
    => IF Raised(result.out)
       THEN result.out.exc = "ValueError"
       ELSE LET s == result.out.value
            IN  /\ Returned
                /\ call.symbol.str
                /\ call.symbol.chars # <<>>
                /\ s # <<>>
                /\ \A i \in 1..Len(s) : s[i] \notin LowerChars
                /\ s[1] \notin SpaceChars
                /\ s[Len(s)] \notin SpaceChars
                /\ \A i \in 1..Len(s) : s[i] \in SymbolAlphabet
                /\ validate_symbol(Str(s)) = result.out

\* C22: " a." is returned as "A.".
C22_LowerCasePaddedSymbol ==
    /\ call.op = "validate_symbol"
    /\ call.symbol = Str(<<" ", "a", ".">>)
    /\ result.out = Ret(<<"A", ".">>)
    /\ validate_symbol(Str(<<"A", ".">>)) = Ret(<<"A", ".">>)

\* The two refusals of compare_stocks for the number of symbols.
CompareLengthErrors ==
    {Text("At least 2 symbols required for comparison"),
     Text("Maximum 10 symbols allowed for comparison")}

\* C23: compare_stocks answers a list of fewer than 2 or more than 10 symbols
\* with an error map and nothing else, having asked the provider for nothing;
\* a list of 2 to 10 symbols is never refused for its length.
C23_CompareTwoToTen ==
    call.op = "compare_stocks"
    => /\ Returned
       /\ IF Len(call.symbols) \in 2..10
          THEN HasError(Map) => Map.error \notin CompareLengthErrors
          ELSE /\ DOMAIN Map = {"error"}
               /\ Map.error \in CompareLengthErrors
               /\ result.fetched = <<>>

\* C23: eleven well-formed symbols are refused without a request to the provider.
C23_ElevenSymbolsRefused ==
    /\ call.op = "compare_stocks"
    /\ Len(call.symbols) = 11
    /\ \A i \in 1..11 : WellFormed(call.symbols[i])
    /\ ValidPeriod(call.period)
    /\ Returned
    /\ Map = [error |-> Text("Maximum 10 symbols allowed for comparison")]
    /\ result.fetched = <<>>

\* The validated symbols of the call, in the order of the arguments.
Requested == [i \in 1..Len(call.symbols) |-> Ticker(call.symbols[i])]

\* Where a ticker first stands among the requested ones.
FirstAt(ticker) ==
    CHOOSE i \in 1..Len(Requested) :
       Requested[i] = ticker /\ \A j \in 1..(i - 1) : Requested[j] # ticker

\* C24: a compare_stocks result without a top-level error holds, for each
\* requested symbol, one entry under the validated symbol, whether the symbol
\* gave metrics or an error; the entries stand in the order of the request, and
\* each entry without an error carries current_price.
C24_OneEntryPerSymbol ==
    (call.op = "compare_stocks" /\ Returned /\ ~HasError(Map))
    => LET keys == Map.comparison.keys
           val == Map.comparison.val
       IN  /\ Range(keys) = Range(Requested)
           /\ DOMAIN val = Range(Requested)
           /\ \A i, j \in 1..Len(keys) :
                 i < j => keys[i] # keys[j] /\ FirstAt(keys[i]) < FirstAt(keys[j])
           /\ \A k \in Range(keys) :
                 ~HasError(val[k]) => "current_price" \in DOMAIN val[k]

\* C24: " B", D and "a" compared give three entries in that order, B's and A's
\* with a current price and D's with an error.
C24_FailedSymbolKeepsItsPlace ==
    /\ call.op = "compare_stocks"
    /\ call.symbols = <<Str(<<" ", "B">>), Str(D), Str(<<"a">>)>>
    /\ Returned
    /\ ~HasError(Map)
    /\ Map.comparison.keys = <<B, D, A>>
    /\ HasError(Map.comparison.val[D])
    /\ "current_price" \in DOMAIN Map.comparison.val[A]
    /\ "current_price" \in DOMAIN Map.comparison.val[B]

\* C25: no step of any sequence of calls changes ALLOWED_SYMBOLS or RATE_LIMIT,
\* and the answer to a call is the handler's value for the call's arguments and
\* the provider's data at the time of the call, whatever was called before.
C25_NoSharedStateWritten ==
    /\ [][ALLOWED_SYMBOLS' = ALLOWED_SYMBOLS /\ RATE_LIMIT' = RATE_LIMIT]_vars
    /\ [](call # Idle => result = Handled(Body))

\* C25: a comparison is answered with both guardrails as they were at start-up.
C25_GuardrailsAsLoaded ==
    /\ call.op = "compare_stocks"
    /\ Returned
    /\ ~HasError(Map)
    /\ ALLOWED_SYMBOLS = {}
    /\ DOMAIN RATE_LIMIT = {}

(***************************************************************************)
(* FinanceMCPClient.  What the MCP library does behind each await is not   *)
(* the client's to decide: every such call either returns or raises.       *)
(***************************************************************************)
\* The ClientSession stdio_client hands out, before and after initialize().
ClientSession(initialized) == [initialized |-> initialized]

\* The two ways an awaited library call ends.
Awaited == {"returns", "raises"}

MCPResponse(success, data, error) == [success |-> success, data |-> data, error |-> error]

\* An empty dict.
NoData == [k \in {} |-> 0]

\* What a method leaves behind: its outcome and the two attributes of the client.
Left(outcome, s, c) == [out |-> outcome, session |-> s, is_connected |-> c]

\* The connect that reports success without setting the flag.
connect_unflagged(created, initialized) ==
    IF created = "raises" THEN Left(Ret(FALSE), session, is_connected)
    ELSE IF initialized = "raises"
    THEN Left(Ret(FALSE), Some(ClientSession(FALSE)), is_connected)
    ELSE Left(Ret(TRUE), Some(ClientSession(TRUE)), is_connected)

\* connect(): the session is assigned as soon as stdio_client returns, the flag
\* only after initialize() has returned; the except clause restores nothing.
connect(created, initialized) ==
    IF created = "raises" THEN Left(Ret(FALSE), session, is_connected)
    ELSE IF initialized = "raises"
    THEN Left(Ret(FALSE), Some(ClientSession(FALSE)), is_connected)
    ELSE Left(Ret(TRUE), Some(ClientSession(TRUE)), TRUE)

\* disconnect(): a close() that raises leaves both attributes as they were.
disconnect(closed) ==
    IF ~IsNone(session) /\ closed = "raises"
    THEN Left(Raise("Exception", "close failed"), session, is_connected)
    ELSE Left(Ret(None), None, FALSE)

\* The tools the server lists.
ServerTools == <<"get_stock_price", "compare_stocks">>

list_tools(listed) ==
    IF IsNone(session) THEN Raise("RuntimeError", "Not connected to server")
    ELSE IF listed = "raises" THEN Raise("Exception", "request failed")
    ELSE Ret(ServerTools)

\* The text of a content item: JSON with the value it parses to, or other text.
JsonText(value) == [json |-> TRUE, value |-> value]
PlainText(chars) == [json |-> FALSE, chars |-> chars]

\* json.loads
json_loads(text) ==
    IF text.json THEN Ret(text.value) ELSE Raise("JSONDecodeError", "Expecting value")

\* The content of a tool's response: a list of items, with a text or without.
TextContent(text) == [text |-> Some(text)]
OtherContent == [text |-> None]

\* call_tool(): `answer` is what session.call_tool does, None when it raises.
call_tool(tool_name, answer) ==
    IF IsNone(session)
    THEN Ret(MCPResponse(FALSE, NoData, Text("Not connected to server")))
    ELSE IF IsNone(answer)
    THEN Ret(MCPResponse(FALSE, NoData, Text("request failed")))
    ELSE LET content == Get(answer)
         IN  IF content = <<>> THEN Ret(MCPResponse(TRUE, [result |-> "Success"], None))
             ELSE IF IsNone(content[1].text)
             THEN Ret(MCPResponse(TRUE, [content |-> "str(content)"], None))
             ELSE LET data == json_loads(Get(content[1].text))
                  IN  IF Raised(data)
                      THEN Ret(MCPResponse(TRUE, [result |-> Get(content[1].text)], None))
                      ELSE Ret(MCPResponse(TRUE, data.value, None))

\* get_server_info(): the tools, or the error of listing them, join the flag.
get_server_info(listed) ==
    IF IsNone(session) THEN Ret([error |-> Text("Not connected to server")])
    ELSE LET tools == list_tools(listed)
         IN  IF Raised(tools)
             THEN Ret([connected |-> is_connected, tools_error |-> Text(tools.msg)])
             ELSE Ret([connected |-> is_connected, available_tools |-> tools.value,
                       tool_count |-> Len(tools.value)])

\* The tools the client asks for, one of them unknown to the server.
ToolArgs == {"get_stock_price", "compare_stocks", "get_weather"}

\* What session.call_tool does: it raises, or answers with no content, a JSON
\* text, a text that is no JSON, or an item without a text.
AnswerArgs ==
    {None, Some(<<>>), Some(<<TextContent(JsonText([symbol |-> "AAPL"]))>>),
     Some(<<TextContent(JsonText([error |-> "Invalid symbol format"]))>>),
     Some(<<TextContent(PlainText("Unknown tool"))>>), Some(<<OtherContent>>)}

\* A method of the client ran: its outcome is the response, its attributes stay.
Ran(c, left) ==
    /\ call' = c
    /\ result' = Done(left.out, <<>>)
    /\ session' = left.session
    /\ is_connected' = left.is_connected
    /\ UNCHANGED <<ALLOWED_SYMBOLS, RATE_LIMIT, market>>

Connect ==
    /\ call = Idle
    /\ \E created \in Awaited, initialized \in Awaited :
          Ran([op |-> "connect", created |-> created, initialized |-> initialized,
               was_connected |-> is_connected],
              connect(created, initialized))

Disconnect ==
    /\ call = Idle
    /\ \E closed \in Awaited :
          Ran([op |-> "disconnect", closed |-> closed], disconnect(closed))

ListTools ==
    /\ call = Idle
    /\ \E listed \in Awaited :
          Ran([op |-> "list_tools", listed |-> listed],
              Left(list_tools(listed), session, is_connected))

CallTool ==
    /\ call = Idle
    /\ \E tool_name \in ToolArgs, answer \in AnswerArgs :
          Ran([op |-> "call_tool", tool_name |-> tool_name, answer |-> answer],
              Left(call_tool(tool_name, answer), session, is_connected))

GetServerInfo ==
    /\ call = Idle
    /\ \E listed \in Awaited :
          Ran([op |-> "get_server_info", listed |-> listed],
              Left(get_server_info(listed), session, is_connected))

\* The caller has the method's outcome.
ClientRespond ==
    /\ call # Idle
    /\ call' = Idle
    /\ result' = NoResult
    /\ UNCHANGED <<ALLOWED_SYMBOLS, RATE_LIMIT, market, client>>

ClientNext ==
    \/ Connect
    \/ Disconnect
    \/ ListTools
    \/ CallTool
    \/ GetServerInfo
    \/ ClientRespond

ClientSpec == Init /\ [][ClientNext]_vars

DefaultPeriod ==
    [op \in EntryPoints |->
        CASE op = "get_stock_price" -> "1mo"
          [] op = "get_trend_analysis" -> "6mo"
          [] OTHER -> "1y"]

\* The call leaves every argument that has a default at its default, and its
\* symbols are well formed.
DefaultsUsed ==
    /\ call.op \in EntryPoints
    /\ call.period = DefaultPeriod[call.op]
    /\ call.op = "get_risk_analysis" => call.benchmark = Str(GSPC) /\ WellFormed(call.symbol)
    /\ call.op = "compare_stocks"
       => /\ call.metrics = None
          /\ Len(call.symbols) \in MinCompare..MaxCompare
          /\ \A i \in 1..Len(call.symbols) : WellFormed(call.symbols[i])
    /\ call.op = "get_portfolio_analysis" => SymbolsAccepted /\ call.weights = None
    /\ call.op \notin {"get_risk_analysis", "compare_stocks", "get_portfolio_analysis"}
       => WellFormed(call.symbol)

\* The messages of validate_symbol and validate_period.
ValidationErrors ==
    {Text("Symbol must be a non-empty string"), Text("Invalid symbol format"),
     Text("Symbol not in allowed list"), Text("Period must be one of the valid periods")}

\* C27: a call that leaves its defaulted arguments at their defaults is not
\* answered with a validation error and gets as far as asking the provider for
\* data; so it is for get_risk_analysis with its default benchmark "^GSPC".
C27_DefaultsPassValidation ==
    DefaultsUsed
    => /\ Returned
       /\ HasError(Map) => Map.error \notin ValidationErrors
       /\ result.fetched # <<>>

\* C27: the risk analysis of A over "1y" against the default benchmark is
\* answered with the validation's "Invalid symbol format" and no request to
\* the provider.
C27_DefaultBenchmarkRefused ==
    /\ call.op = "get_risk_analysis"
    /\ call.symbol = Str(A)
    /\ call.period = "1y"
    /\ call.benchmark = Str(GSPC)
    /\ Returned
    /\ Map = [error |-> Text("Invalid symbol format")]
    /\ result.fetched = <<>>

\* The response of call_tool on a client without a session.
NotConnected == MCPResponse(FALSE, NoData, Text("Not connected to server"))

\* C28: in every state the session is set exactly when is_connected is True;
\* and once connect() has returned False, call_tool answers with the failure
\* "Not connected to server" and list_tools raises a RuntimeError, whatever the
\* server would do.
C28_SessionIffConnected ==
    /\ ~IsNone(session) <=> is_connected
    /\ (call.op = "connect" /\ result.out = Ret(FALSE))
       => /\ \A tool_name \in ToolArgs, answer \in AnswerArgs :
                call_tool(tool_name, answer) = Ret(NotConnected)
          /\ \A listed \in Awaited :
                list_tools(listed) = Raise("RuntimeError", "Not connected to server")

\* C28: the first connect() of a client got a session and failed at
\* initialize(): it returned False, the session is set, is_connected is False,
\* and call_tool and list_tools go on to use the session.
C28_SessionWithoutConnection ==
    /\ call.op = "connect"
    /\ call.created = "returns"
    /\ call.initialized = "raises"
    /\ ~call.was_connected
    /\ result.out = Ret(FALSE)
    /\ session = Some(ClientSession(FALSE))
    /\ ~is_connected
    /\ call_tool("get_stock_price", Some(<<>>)) = Ret(MCPResponse(TRUE, [result |-> "Success"], None))
    /\ list_tools("returns") = Ret(ServerTools)

\* The client has no session and is not connected.
Disconnected == IsNone(session) /\ ~is_connected

\* C29: after disconnect(), on a connected client or not, the client is
\* disconnected, and a disconnect() of a disconnected client returns and leaves
\* it so; from then on the client stays disconnected, and call_tool answers
\* with the failure "Not connected to server", until a connect() returns True;
\* call_tool always returns a response and changes neither session nor
\* is_connected.
C29_DisconnectedUntilConnected ==
    /\ [](call.op = "disconnect" => Returned /\ Disconnected)
    /\ [][(Disconnected /\ ~(call'.op = "connect" /\ result'.out = Ret(TRUE)))
          => Disconnected']_vars
    /\ [](call.op = "call_tool"
          => /\ Returned
             /\ Map.success \in BOOLEAN
             /\ Disconnected => Map = NotConnected)
    /\ [][call'.op = "call_tool" => UNCHANGED client]_vars

\* C29: disconnect() of a connected client whose close() raised: the exception
\* went to the caller and the client still has its session and its flag.
C29_DisconnectRaised ==
    /\ call.op = "disconnect"
    /\ call.closed = "raises"
    /\ Raised(result.out)
    /\ session = Some(ClientSession(TRUE))
    /\ is_connected
    /\ call_tool("get_stock_price", Some(<<>>)) # Ret(NotConnected)

(***************************************************************************)
(* compare_stocks asked for the beta, against an index that has the bars   *)
(* of one of the listed stocks.                                            *)
(***************************************************************************)
\* The listing of the risk analysis, with "^GSPC" trading like a listed ticker.
BetaListing(like) == RiskListing @@ (GSPC :> RiskListing[like])

\* The index has 32 returns that vary, 32 that are all 0, or exactly 30.
BetaMarkets == {[closes |-> BetaListing(like), down |-> {}, noinfo |-> {}] : like \in {H, C, A}}

BetaSymbolArgs == {Str(A), Str(C), Str(D), Str(E), Str(H), Str(L)}

\* The beta alone, the beta after another metric, and a request without it.
BetaMetricsArgs == {Some(<<"beta">>), Some(<<"returns", "beta">>), Some(<<"returns">>)}

BetaInit ==
    /\ ALLOWED_SYMBOLS = {}
    /\ RATE_LIMIT = [k \in {} |-> 0]
    /\ market \in BetaMarkets
    /\ call = Idle
    /\ result = NoResult
    /\ session = None
    /\ is_connected = FALSE

BetaProviderUpdate ==
    /\ call = Idle
    /\ market' \in BetaMarkets \ {market}
    /\ UNCHANGED <<ALLOWED_SYMBOLS, RATE_LIMIT, call, result, client>>

CompareBeta ==
    /\ call = Idle
    /\ \E first \in BetaSymbolArgs, second \in BetaSymbolArgs, metrics \in BetaMetricsArgs :
          /\ call' = [op |-> "compare_stocks", symbols |-> <<first, second>>,
                      period |-> "1y", metrics |-> metrics]
          /\ result' = compare_stocks(<<first, second>>, "1y", metrics)
    /\ UNCHANGED <<ALLOWED_SYMBOLS, RATE_LIMIT, market, client>>

BetaNext ==
    \/ BetaProviderUpdate
    \/ CompareBeta
    \/ Respond

BetaSpec == BetaInit /\ [][BetaNext]_vars

\* A comparison that was asked for the beta and returned its entries.
BetaAsked ==
    /\ call.op = "compare_stocks"
    /\ call.metrics # None
    /\ "beta" \in Range(Get(call.metrics))
    /\ Returned
    /\ ~HasError(Map)

\* The listed stock whose bars the index has.
Twin == CHOOSE t \in {H, C, A} : market.closes[t] = market.closes[GSPC]

\* What get_risk_analysis answers for the symbol against that stock.
RiskOf(symbol) == get_risk_analysis(symbol, call.period, Str(Twin)).out.value

\* The number of dates at which both the symbol and the index have a return.
IndexOverlap(symbol) == Cardinality(ReturnDates(Ticker(symbol)) \cap ReturnDates(GSPC))

\* The index closed at the same price every day.
IndexFlat == \A i \in 1..Len(market.closes[GSPC]) : market.closes[GSPC][i] = market.closes[GSPC][1]

\* C30: compare_stocks, asked for the beta, gives a symbol with data a beta
\* exactly when get_risk_analysis computes one from the same bars, which is
\* when the symbol and the benchmark have returns at 30 dates or more in common;
\* the two betas are equal, and 0 when the benchmark's returns do not vary.
C30_SameBetaRule ==
    BetaAsked
    => \A i \in 1..Len(call.symbols) :
          HasData(call.symbols[i])
          => LET entry == Map.comparison.val[Ticker(call.symbols[i])]
                 risk == RiskOf(call.symbols[i])
             IN  /\ "beta" \in DOMAIN entry <=> "beta" \in DOMAIN risk
                 /\ "beta" \in DOMAIN entry <=> IndexOverlap(call.symbols[i]) >= MinOverlap
                 /\ "beta" \in DOMAIN entry
                    => /\ entry.beta = risk.beta
                       /\ IndexFlat => entry.beta = Zero

\* C30: A and the index have returns at exactly 30 dates in common; the risk
\* analysis of A against the same bars reports a beta, the comparison's entry
\* for A has none, while H's, with 32 dates in common, has one.
C30_ThirtyInCommonNoBeta ==
    /\ BetaAsked
    /\ call.symbols = <<Str(A), Str(H)>>
    /\ Twin = H
    /\ IndexOverlap(Str(A)) = 30
    /\ "beta" \in DOMAIN RiskOf(Str(A))
    /\ "beta" \notin DOMAIN Map.comparison.val[A]
    /\ "beta" \in DOMAIN Map.comparison.val[H]

====
